---- MODULE Spec2Model ----
(***************************************************************************)
(* Launch Control XL 3 SysEx template generator: the byte-offset patching  *)
(* engine of lib/sysex_generator.py (channel policy, CC assignment, the    *)
(* batch writer) over the embedded base frames and the control table.      *)
(* Python byte offsets are 0-based; frames are TLA+ sequences, so offset p *)
(* of a frame m is m[p + 1].                                               *)
(***************************************************************************)
EXTENDS Integers, Sequences, FiniteSets, TLC

(* ------------------------- program constants --------------------------- *)

MAX_CC_VALUE == 127

MIN_CC_VALUE == 1

MAX_MIDI_CHANNEL == 16

MIN_MIDI_CHANNEL == 1

\* lib/constants.py: the assignable CC range and the default start value.
SAFE_CC_MIN == 1

SAFE_CC_MAX == 126

DEFAULT_MIN_CC_VALUE == 1

\* _validate_template_count accepts 1..MAX_TEMPLATE_COUNT.
MAX_TEMPLATE_COUNT == 15

\* the byte _set_midi_channel stores at flag_pos ("local channel" mode)
LOCAL_CHANNEL_FLAG == 0

\* the CC byte of a disabled control
CC_DISABLED == 0

EMBEDDED_MSGS ==
  << <<
     240, 0, 32, 41, 2, 21, 5, 0, 69, 0, 127, 32, 16, 42, 78, 101, 119, 32, 67,
     117, 115, 116, 111, 109, 32, 77, 111, 100, 101, 73, 16, 2, 5, 0, 1, 64, 0, 13,
     127, 0, 73, 17, 2, 5, 0, 1, 64, 0, 14, 127, 0, 73, 18, 2, 5, 0, 1,
     64, 0, 15, 127, 0, 73, 19, 2, 5, 0, 1, 64, 0, 16, 127, 0, 73, 20, 2,
     5, 0, 1, 64, 0, 17, 127, 0, 73, 21, 2, 5, 0, 1, 64, 0, 18, 127, 0,
     73, 22, 2, 5, 0, 1, 64, 0, 19, 127, 0, 73, 23, 2, 5, 0, 1, 64, 0,
     20, 127, 0, 73, 24, 2, 9, 0, 1, 64, 0, 21, 127, 0, 73, 25, 2, 9, 0,
     1, 64, 0, 22, 127, 0, 73, 26, 2, 9, 0, 1, 64, 0, 23, 127, 0, 73, 27,
     2, 9, 0, 1, 64, 0, 24, 127, 0, 73, 28, 2, 9, 0, 1, 64, 0, 25, 127,
     0, 73, 29, 2, 9, 0, 1, 64, 0, 26, 127, 0, 73, 30, 2, 9, 0, 1, 64,
     0, 27, 127, 0, 73, 31, 2, 9, 0, 1, 64, 0, 28, 127, 0, 73, 32, 2, 13,
     0, 1, 64, 0, 29, 127, 0, 73, 33, 2, 13, 0, 1, 64, 0, 30, 127, 0, 73,
     34, 2, 13, 0, 1, 64, 0, 31, 127, 0, 73, 35, 2, 13, 0, 1, 64, 0, 32,
     127, 0, 73, 36, 2, 13, 0, 1, 64, 0, 33, 127, 0, 73, 37, 2, 13, 0, 1,
     64, 0, 34, 127, 0, 73, 38, 2, 13, 0, 1, 64, 0, 35, 127, 0, 73, 39, 2,
     13, 0, 1, 64, 0, 36, 127, 0, 96, 16, 96, 17, 96, 18, 96, 19, 96, 20, 96,
     21, 96, 22, 96, 23, 96, 24, 96, 25, 96, 26, 96, 27, 96, 28, 96, 29, 96, 30,
     96, 31, 96, 32, 96, 33, 96, 34, 96, 35, 96, 36, 96, 37, 96, 38, 96, 39, 247 >>,
     <<
     240, 0, 32, 41, 2, 21, 5, 0, 69, 3, 127, 32, 16, 42, 78, 101, 119, 32, 67,
     117, 115, 116, 111, 109, 32, 77, 111, 100, 101, 73, 40, 2, 0, 0, 1, 64, 0, 5,
     127, 0, 73, 41, 2, 0, 0, 1, 64, 0, 6, 127, 0, 73, 42, 2, 0, 0, 1,
     64, 0, 7, 127, 0, 73, 43, 2, 0, 0, 1, 64, 0, 8, 127, 0, 73, 44, 2,
     0, 0, 1, 64, 0, 9, 127, 0, 73, 45, 2, 0, 0, 1, 64, 0, 10, 127, 0,
     73, 46, 2, 0, 0, 1, 64, 0, 11, 127, 0, 73, 47, 2, 0, 0, 1, 64, 0,
     12, 127, 0, 96, 40, 96, 41, 96, 42, 96, 43, 96, 44, 96, 45, 96, 46, 96, 47,
     73, 48, 2, 25, 3, 1, 80, 0, 37, 127, 0, 73, 49, 2, 25, 3, 1, 80, 0,
     38, 127, 0, 73, 50, 2, 25, 3, 1, 80, 0, 39, 127, 0, 73, 51, 2, 25, 3,
     1, 80, 0, 40, 127, 0, 73, 52, 2, 25, 3, 1, 80, 0, 41, 127, 0, 73, 53,
     2, 25, 3, 1, 80, 0, 42, 127, 0, 73, 54, 2, 25, 3, 1, 80, 0, 43, 127,
     0, 73, 55, 2, 25, 3, 1, 80, 0, 44, 127, 0, 73, 56, 2, 37, 3, 1, 80,
     0, 45, 127, 0, 73, 57, 2, 37, 3, 1, 80, 0, 46, 127, 0, 73, 58, 2, 37,
     3, 1, 80, 0, 47, 127, 0, 73, 59, 2, 37, 3, 1, 80, 0, 48, 127, 0, 73,
     60, 2, 37, 3, 1, 80, 0, 49, 127, 0, 73, 61, 2, 37, 3, 1, 80, 0, 50,
     127, 0, 73, 62, 2, 37, 3, 1, 80, 0, 51, 127, 0, 73, 63, 2, 37, 3, 1,
     80, 0, 52, 127, 0, 96, 48, 96, 49, 96, 50, 96, 51, 96, 52, 96, 53, 96, 54,
     96, 55, 96, 56, 96, 57, 96, 58, 96, 59, 96, 60, 96, 61, 96, 62, 96, 63, 247 >> >>

CONTROLS ==
  << <<0, 37, 34, 32, 35>>, <<0, 48, 45, 43, 46>>, <<0, 59, 56, 54, 57>>,
     <<0, 70, 67, 65, 68>>, <<0, 81, 78, 76, 79>>, <<0, 92, 89, 87, 90>>,
     <<0, 103, 100, 98, 101>>, <<0, 114, 111, 109, 112>>, <<0, 125, 122, 120, 123>>,
     <<0, 136, 133, 131, 134>>, <<0, 147, 144, 142, 145>>, <<0, 158, 155, 153, 156>>,
     <<0, 169, 166, 164, 167>>, <<0, 180, 177, 175, 178>>, <<0, 191, 188, 186, 189>>,
     <<0, 202, 199, 197, 200>>, <<0, 213, 210, 208, 211>>, <<0, 224, 221, 219, 222>>,
     <<0, 235, 232, 230, 233>>, <<0, 246, 243, 241, 244>>, <<0, 257, 254, 252, 255>>,
     <<0, 268, 265, 263, 266>>, <<0, 279, 276, 274, 277>>, <<0, 290, 287, 285, 288>>,
     <<1, 37, 34, 32, 35>>, <<1, 48, 45, 43, 46>>, <<1, 59, 56, 54, 57>>,
     <<1, 70, 67, 65, 68>>, <<1, 81, 78, 76, 79>>, <<1, 92, 89, 87, 90>>,
     <<1, 103, 100, 98, 101>>, <<1, 114, 111, 109, 112>>, <<1, 141, 138, 136, 139>>,
     <<1, 152, 149, 147, 150>>, <<1, 163, 160, 158, 161>>, <<1, 174, 171, 169, 172>>,
     <<1, 185, 182, 180, 183>>, <<1, 196, 193, 191, 194>>, <<1, 207, 204, 202, 205>>,
     <<1, 218, 215, 213, 216>>, <<1, 229, 226, 224, 227>>, <<1, 240, 237, 235, 238>>,
     <<1, 251, 248, 246, 249>>, <<1, 262, 259, 257, 260>>, <<1, 273, 270, 268, 271>>,
     <<1, 284, 281, 279, 282>>, <<1, 295, 292, 290, 293>>, <<1, 306, 303, 301, 304>> >>

(* ------------------------------ bounds --------------------------------- *)

\* generate_template is called with template numbers 1..MaxTemplateNum
MaxTemplateNum == 20

\* global_channel arguments range over 0..MaxChannelArg (and None, a float)
MaxChannelArg == 17

\* generate_all_templates is called with counts 0..MaxCountArg (and a float)
MaxCountArg == 16

\* a start value high enough that restart mode runs out of safe CCs
HighMinCC == 100

(* --------------------------- Python values ----------------------------- *)

\* Arguments the code type-checks at run time (isinstance) carry their type.
PyInt(n) == [type |-> "int", val |-> n]

PyFloat(n) == [type |-> "float", val |-> n]

None == [type |-> "NoneType", val |-> 0]

PyDict(d) == [type |-> "dict", val |-> d]

IsInt(v) == v.type = "int"

PER_TEMPLATE == "per-template"

GLOBAL == "global"

RESTART_PER_TEMPLATE == "restart"

CONTINUOUS == "continuous"

ChannelMode == {PER_TEMPLATE, GLOBAL}

CCMode == {RESTART_PER_TEMPLATE, CONTINUOUS}

(* ---------------------------- byte buffers ----------------------------- *)

\* messages[msg_index][pos]
ByteAt(messages, msg_index, pos) == messages[msg_index + 1][pos + 1]

\* messages[msg_index][pos] = value
SetByte(messages, msg_index, pos, value) ==
  [messages EXCEPT ![msg_index + 1][pos + 1] = value]

NumControls == Len(CONTROLS)

ControlIndices == 0 .. (NumControls - 1)

\* msg_index counted from 1
MsgIndex_one_based(control_index) == CONTROLS[control_index + 1][1] + 1

\* the tuple fields of control number control_index (0-based)
MsgIndex(control_index) == CONTROLS[control_index + 1][1]

CcPos(control_index) == CONTROLS[control_index + 1][2]

ChPos(control_index) == CONTROLS[control_index + 1][3]

ColorPos(control_index) == CONTROLS[control_index + 1][4]

FlagPos(control_index) == CONTROLS[control_index + 1][5]

\* b"".join(bytes(msg) for msg in messages)
RECURSIVE JoinMessages(_)
JoinMessages(messages) ==
  IF messages = <<>> THEN <<>>
  ELSE Head(messages) \o JoinMessages(Tail(messages))

(* ------------------------ SysExTemplateGenerator ----------------------- *)

\* _validate_channel accepting one channel too many
validate_channel_raises_upto17(channel_1_16) ==
  IF ~IsInt(channel_1_16)
     \/ ~(MIN_MIDI_CHANNEL <= channel_1_16.val
          /\ channel_1_16.val <= MAX_MIDI_CHANNEL + 1)
  THEN "InvalidChannel" ELSE "none"

\* _validate_channel: the exception raised ("none" when it returns)
validate_channel_raises(channel_1_16) ==
  IF ~IsInt(channel_1_16)
     \/ ~(MIN_MIDI_CHANNEL <= channel_1_16.val /\ channel_1_16.val <= MAX_MIDI_CHANNEL)
  THEN "InvalidChannel" ELSE "none"

\* _validate_channel returning the 1-based channel unconverted
validate_channel_one_based(channel_1_16) == channel_1_16.val

\* _validate_channel: the value returned
validate_channel(channel_1_16) == channel_1_16.val - 1

\* _validate_template_count without the upper limit (the check of the older
\* single-file program)
validate_template_count_raises_no_max(count) ==
  IF ~IsInt(count) \/ count.val < 1 THEN "InvalidTemplateCount" ELSE "none"

\* _validate_template_count: the exception raised ("none" when it returns)
validate_template_count_raises(count) ==
  IF ~IsInt(count) \/ count.val < 1 \/ count.val > MAX_TEMPLATE_COUNT
  THEN "InvalidTemplateCount" ELSE "none"

\* _clone_messages handing out the base buffers themselves
clone_messages_aliases(base) == [messages |-> base, shares |-> TRUE]

\* _clone_messages: bytearray(msg) builds a new buffer for every frame, so
\* the copy has the bytes of base_messages and shares no storage with it
clone_messages(base) == [messages |-> base, shares |-> FALSE]

\* cc_value with the range ending at MAX_CC_VALUE instead of SAFE_CC_MAX
cc_value_for_upto127(control_index, template_index, cc_mode, min_cc_value, cc_reverse) ==
  LET safe_min_cc == IF min_cc_value > SAFE_CC_MIN THEN min_cc_value ELSE SAFE_CC_MIN
      available_ccs == MAX_CC_VALUE - safe_min_cc + 1
      cc_offset == IF cc_mode = RESTART_PER_TEMPLATE
                   THEN control_index
                   ELSE (template_index * NumControls) + control_index
  IN IF cc_offset >= available_ccs THEN CC_DISABLED
     ELSE IF cc_reverse THEN MAX_CC_VALUE - cc_offset
          ELSE safe_min_cc + cc_offset

\* cc_value wrapping around the CC range instead of disabling the control
\* (the numbering of the older single-file program)
cc_value_for_wrapping(control_index, template_index, cc_mode, min_cc_value, cc_reverse) ==
  LET cc_offset == IF cc_mode = RESTART_PER_TEMPLATE
                   THEN control_index
                   ELSE (template_index * NumControls) + control_index
  IN (cc_offset % MAX_CC_VALUE) + MIN_CC_VALUE

\* cc_value numbering across templates in restart mode too
cc_value_for_never_restarts(control_index, template_index, cc_mode, min_cc_value, cc_reverse) ==
  LET safe_min_cc == IF min_cc_value > SAFE_CC_MIN THEN min_cc_value ELSE SAFE_CC_MIN
      available_ccs == SAFE_CC_MAX - safe_min_cc + 1
      cc_offset == (template_index * NumControls) + control_index
  IN IF cc_offset >= available_ccs THEN CC_DISABLED
     ELSE IF cc_reverse THEN SAFE_CC_MAX - cc_offset
          ELSE safe_min_cc + cc_offset

\* cc_value advancing by len(CONTROLS) - 1 per template
cc_value_for_short_stride(control_index, template_index, cc_mode, min_cc_value, cc_reverse) ==
  LET safe_min_cc == IF min_cc_value > SAFE_CC_MIN THEN min_cc_value ELSE SAFE_CC_MIN
      available_ccs == SAFE_CC_MAX - safe_min_cc + 1
      cc_offset == IF cc_mode = RESTART_PER_TEMPLATE
                   THEN control_index
                   ELSE (template_index * (NumControls - 1)) + control_index
  IN IF cc_offset >= available_ccs THEN CC_DISABLED
     ELSE IF cc_reverse THEN SAFE_CC_MAX - cc_offset
          ELSE safe_min_cc + cc_offset

\* the cc_value with the reversed run starting at MAX_CC_VALUE
cc_value_for_reverse_from_127(control_index, template_index, cc_mode, min_cc_value, cc_reverse) ==
  LET safe_min_cc == IF min_cc_value > SAFE_CC_MIN THEN min_cc_value ELSE SAFE_CC_MIN
      available_ccs == SAFE_CC_MAX - safe_min_cc + 1
      cc_offset == IF cc_mode = RESTART_PER_TEMPLATE
                   THEN control_index
                   ELSE (template_index * NumControls) + control_index
  IN IF cc_offset >= available_ccs THEN CC_DISABLED
     ELSE IF cc_reverse
          THEN (IF MAX_CC_VALUE - cc_offset < SAFE_CC_MIN
                THEN CC_DISABLED ELSE MAX_CC_VALUE - cc_offset)
          ELSE (IF safe_min_cc + cc_offset > SAFE_CC_MAX
                THEN CC_DISABLED ELSE safe_min_cc + cc_offset)

\* the cc_value _assign_continuous_controllers computes for one control
cc_value_for(control_index, template_index, cc_mode, min_cc_value, cc_reverse) ==
  LET safe_min_cc == IF min_cc_value > SAFE_CC_MIN THEN min_cc_value ELSE SAFE_CC_MIN
      available_ccs == SAFE_CC_MAX - safe_min_cc + 1
      cc_offset == IF cc_mode = RESTART_PER_TEMPLATE
                   THEN control_index
                   ELSE (template_index * NumControls) + control_index
  IN IF cc_offset >= available_ccs THEN CC_DISABLED
     ELSE IF cc_reverse
          THEN (IF SAFE_CC_MAX - cc_offset < SAFE_CC_MIN
                THEN CC_DISABLED ELSE SAFE_CC_MAX - cc_offset)
          ELSE (IF safe_min_cc + cc_offset > SAFE_CC_MAX
                THEN CC_DISABLED ELSE safe_min_cc + cc_offset)

\* the loop body of _assign_continuous_controllers storing the CC at the
\* control's color offset
assign_control_at_color_pos(messages, control_index, template_index, cc_mode, min_cc_value, cc_reverse) ==
  SetByte(messages, MsgIndex(control_index), ColorPos(control_index),
          cc_value_for(control_index, template_index, cc_mode, min_cc_value,
                       cc_reverse))

\* one iteration of the loop of _assign_continuous_controllers (line 118)
assign_control(messages, control_index, template_index, cc_mode, min_cc_value, cc_reverse) ==
  SetByte(messages, MsgIndex(control_index), CcPos(control_index),
          cc_value_for(control_index, template_index, cc_mode, min_cc_value,
                       cc_reverse))

\* the iterations first..last of that loop, in order (the range is halved
\* only to keep the evaluation shallow; the order of the writes is the loop's)
RECURSIVE assign_range(_, _, _, _, _, _, _)
assign_range(messages, first, last, template_index, cc_mode, min_cc_value, cc_reverse) ==
  IF first > last THEN messages
  ELSE IF first = last
       THEN assign_control(messages, first, template_index, cc_mode,
                           min_cc_value, cc_reverse)
       ELSE LET mid == (first + last) \div 2
                done == assign_range(messages, first, mid, template_index,
                                     cc_mode, min_cc_value, cc_reverse)
            IN IF Len(done) = Len(messages)   \* evaluates `done` first
               THEN assign_range(done, mid + 1, last, template_index,
                                 cc_mode, min_cc_value, cc_reverse)
               ELSE done

\* _assign_continuous_controllers
assign_continuous_controllers(messages, template_index, cc_mode, min_cc_value, cc_reverse) ==
  assign_range(messages, 0, NumControls - 1, template_index, cc_mode,
               min_cc_value, cc_reverse)

\* the loop body of _set_midi_channel leaving the mode flag alone
set_channel_of_keeps_flag(messages, control_index, zero_based_channel) ==
  SetByte(messages, MsgIndex(control_index), ChPos(control_index),
          zero_based_channel)

\* the loop body storing the channel as the status byte of a Control Change
set_channel_of_as_status_byte(messages, control_index, zero_based_channel) ==
  LET m1 == SetByte(messages, MsgIndex(control_index), ChPos(control_index),
                    176 + zero_based_channel)
  IN IF FlagPos(control_index) >= 0
     THEN SetByte(m1, MsgIndex(control_index), FlagPos(control_index),
                  LOCAL_CHANNEL_FLAG)
     ELSE m1

\* the body of the loop of _set_midi_channel for one control
set_channel_of(messages, control_index, zero_based_channel) ==
  LET m1 == SetByte(messages, MsgIndex(control_index), ChPos(control_index),
                    zero_based_channel)
  IN IF FlagPos(control_index) >= 0
     THEN SetByte(m1, MsgIndex(control_index), FlagPos(control_index),
                  LOCAL_CHANNEL_FLAG)
     ELSE m1

\* the iterations first..last of the loop of _set_midi_channel, in order
RECURSIVE set_channel_range(_, _, _, _)
set_channel_range(messages, first, last, zero_based_channel) ==
  IF first > last THEN messages
  ELSE IF first = last
       THEN set_channel_of(messages, first, zero_based_channel)
       ELSE LET mid == (first + last) \div 2
                done == set_channel_range(messages, first, mid, zero_based_channel)
            IN IF Len(done) = Len(messages)   \* evaluates `done` first
               THEN set_channel_range(done, mid + 1, last, zero_based_channel)
               ELSE done

\* _set_midi_channel storing the channel bytes before it validates
set_midi_channel_writes_first(messages, channel_1_16) ==
  [raised |-> validate_channel_raises(channel_1_16),
   messages |-> set_channel_range(messages, 0, NumControls - 1,
                                  validate_channel(channel_1_16))]

\* _set_midi_channel: the exception it ends in and the buffers it leaves
set_midi_channel(messages, channel_1_16) ==
  IF validate_channel_raises(channel_1_16) # "none"
  THEN [raised |-> validate_channel_raises(channel_1_16), messages |-> messages]
  ELSE [raised |-> "none",
        messages |-> set_channel_range(messages, 0, NumControls - 1,
                                       validate_channel(channel_1_16))]

\* _set_button_modes: a no-op
set_button_modes(messages) == messages

\* _get_channel_for_template: the exception raised ("none" when it returns)
get_channel_for_template_raises(t_num, ch_mode, g_channel) ==
  IF ch_mode = GLOBAL /\ g_channel = None THEN "MissingParameter" ELSE "none"

\* _get_channel_for_template without the cap at channel 16
get_channel_for_template_uncapped(t_num, ch_mode, g_channel) ==
  IF ch_mode = GLOBAL THEN g_channel ELSE PyInt(t_num)

\* _get_channel_for_template: the value returned
get_channel_for_template(t_num, ch_mode, g_channel) ==
  IF ch_mode = GLOBAL THEN g_channel
  ELSE PyInt(IF t_num < MAX_MIDI_CHANNEL THEN t_num ELSE MAX_MIDI_CHANNEL)

\* generate_template: the exception it ends in ("none" when it returns), the
\* value of its local `messages` at that moment, and self.base_messages then
\* (writes to `messages` reach base_messages only if the two share storage)
generate_template(base, t_num, ch_mode, c_mode, g_channel, min_cc, reverse) ==
  LET cloned == clone_messages(base)
      channel_raised == get_channel_for_template_raises(t_num, ch_mode, g_channel)
      set == set_midi_channel(cloned.messages,
               get_channel_for_template(t_num, ch_mode, g_channel))
      patched == assign_continuous_controllers(set_button_modes(set.messages),
                   t_num - 1, c_mode, min_cc, reverse)
      out == IF channel_raised # "none"
             THEN [raised |-> channel_raised, messages |-> cloned.messages]
             ELSE IF set.raised # "none" THEN set
                  ELSE [raised |-> "none", messages |-> patched]
  IN [raised |-> out.raised,
      messages |-> out.messages,
      base |-> IF cloned.shares THEN out.messages ELSE base]

(* ----------------------------- led_mapper.py --------------------------- *)

\* the literal 0xF0 of _split_sysex_messages (line 90)
SYSEX_START == 240

\* the literal 0xF7 of _split_sysex_messages (line 96)
SYSEX_END == 247

\* COLOR_MAP, in the order of the dict: <<name, value>>
COLOR_MAP ==
  << <<"red", 5>>, <<"orange", 9>>, <<"yellow", 13>>, <<"lime", 17>>,
     <<"green", 25>>, <<"turquoise", 29>>, <<"cyan", 33>>,
     <<"light_blue", 37>>, <<"blue", 41>>, <<"dark_blue", 45>>,
     <<"purple", 49>>, <<"fuchsia", 53>>, <<"pink", 57>>, <<"off", 3>>,
     <<"disabled", 0>> >>

\* the values of COLOR_MAP
ColorValues == {COLOR_MAP[k][2] : k \in DOMAIN COLOR_MAP}

\* DEVICE_LAYOUT: the (row, col) positions of each section, eight per row
DEVICE_LAYOUT ==
  [knobs_top   |-> [col \in 1 .. 8 |-> <<0, col - 1>>],
   knobs_mid   |-> [col \in 1 .. 8 |-> <<1, col - 1>>],
   knobs_bot   |-> [col \in 1 .. 8 |-> <<2, col - 1>>],
   sliders     |-> [col \in 1 .. 8 |-> <<3, col - 1>>],
   buttons_top |-> [col \in 1 .. 8 |-> <<4, col - 1>>],
   buttons_bot |-> [col \in 1 .. 8 |-> <<5, col - 1>>]]

\* the keys LEDColorMapper.__init__ gives self.colors
LayoutPositions ==
  UNION {{DEVICE_LAYOUT[section][k] : k \in DOMAIN DEVICE_LAYOUT[section]} :
           section \in DOMAIN DEVICE_LAYOUT}

\* self.colors after __init__: every position 'off'
fresh_colors == [position \in LayoutPositions |-> "off"]

\* the (None, None) of _control_index_to_position
NoPosition == <<-1, -1>>

\* _control_index_to_position: all_positions in the order of its list of
\* section names
all_positions ==
  DEVICE_LAYOUT.knobs_top \o DEVICE_LAYOUT.knobs_mid \o DEVICE_LAYOUT.knobs_bot
  \o DEVICE_LAYOUT.sliders \o DEVICE_LAYOUT.buttons_top
  \o DEVICE_LAYOUT.buttons_bot

control_index_to_position(control_index) ==
  IF 0 <= control_index /\ control_index < Len(all_positions)
  THEN all_positions[control_index + 1]
  ELSE NoPosition

\* the reverse lookup of _extract_colors_from_sysex skipping 'disabled'
color_name_of_skips_disabled(color_value) ==
  LET matches == {k \in DOMAIN COLOR_MAP :
                    COLOR_MAP[k][2] = color_value /\ COLOR_MAP[k][1] # "disabled"}
  IN IF matches = {} THEN "off"
     ELSE COLOR_MAP[CHOOSE k \in matches : \A j \in matches : k <= j][1]

\* the reverse lookup of _extract_colors_from_sysex defaulting to 'disabled'
color_name_of_defaults_to_disabled(color_value) ==
  LET matches == {k \in DOMAIN COLOR_MAP : COLOR_MAP[k][2] = color_value}
  IN IF matches = {} THEN "disabled"
     ELSE COLOR_MAP[CHOOSE k \in matches : \A j \in matches : k <= j][1]

\* the reverse lookup of _extract_colors_from_sysex (lines 72-76): the first
\* name of COLOR_MAP with that value, 'off' when there is none
color_name_of(color_value) ==
  LET matches == {k \in DOMAIN COLOR_MAP : COLOR_MAP[k][2] = color_value}
  IN IF matches = {} THEN "off"
     ELSE COLOR_MAP[CHOOSE k \in matches : \A j \in matches : k <= j][1]

\* COLOR_MAP[name] for a name of the table
color_map_value(color_name) ==
  COLOR_MAP[CHOOSE k \in DOMAIN COLOR_MAP : COLOR_MAP[k][1] = color_name][2]

\* COLOR_MAP.get(color_name, COLOR_MAP['off']) (line 130)
color_value_of(color_name) ==
  IF \E k \in DOMAIN COLOR_MAP : COLOR_MAP[k][1] = color_name
  THEN color_map_value(color_name)
  ELSE color_map_value("off")

\* the first 0-based index in first .. last of sysex_data holding `byte`,
\* or last + 1 when there is none: what the scanning loops of
\* _split_sysex_messages (lines 88-97) stop at.  The range is halved only
\* to keep the evaluation shallow.
RECURSIVE scan_for(_, _, _, _)
scan_for(sysex_data, byte, first, last) ==
  IF first > last THEN last + 1
  ELSE IF first = last
       THEN IF sysex_data[first + 1] = byte THEN first ELSE last + 1
       ELSE LET mid == (first + last) \div 2
                found == scan_for(sysex_data, byte, first, mid)
            IN IF found <= mid THEN found
               ELSE LET rest == scan_for(sysex_data, byte, mid + 1, last)
                    IN IF rest <= last THEN rest ELSE last + 1

\* the slice sysex_data[start:stop]
Slice(sysex_data, start, stop) == SubSeq(sysex_data, start + 1, stop)

\* _split_sysex_messages appending the span without its 0xF7
RECURSIVE split_from_exclusive(_, _)
split_from_exclusive(sysex_data, start) ==
  LET len == Len(sysex_data)
      f0 == scan_for(sysex_data, SYSEX_START, start, len - 1)
      end == scan_for(sysex_data, SYSEX_END, f0 + 1, len - 1)
  IN IF f0 >= len \/ end >= len THEN <<>>
     ELSE <<Slice(sysex_data, f0, end)>>
          \o split_from_exclusive(sysex_data, end + 1)

\* _split_sysex_messages taking a 0xF7 in the last place for a missing one
RECURSIVE split_from_short_of_last(_, _)
split_from_short_of_last(sysex_data, start) ==
  LET len == Len(sysex_data)
      f0 == scan_for(sysex_data, SYSEX_START, start, len - 1)
      end == scan_for(sysex_data, SYSEX_END, f0 + 1, len - 1)
  IN IF f0 >= len \/ end >= len - 1 THEN <<>>
     ELSE <<Slice(sysex_data, f0, end + 1)>>
          \o split_from_short_of_last(sysex_data, end + 1)

\* _split_sysex_messages resuming one byte after the 0xF0 it has just taken
RECURSIVE split_from_resumes_inside(_, _)
split_from_resumes_inside(sysex_data, start) ==
  LET len == Len(sysex_data)
      f0 == scan_for(sysex_data, SYSEX_START, start, len - 1)
      end == scan_for(sysex_data, SYSEX_END, f0 + 1, len - 1)
  IN IF f0 >= len \/ end >= len THEN <<>>
     ELSE <<Slice(sysex_data, f0, end + 1)>>
          \o split_from_resumes_inside(sysex_data, f0 + 1)

\* the loop of _split_sysex_messages (lines 88-104) from `start` on: the
\* messages it appends
RECURSIVE split_from(_, _)
split_from(sysex_data, start) ==
  LET len == Len(sysex_data)
      f0 == scan_for(sysex_data, SYSEX_START, start, len - 1)
      end == scan_for(sysex_data, SYSEX_END, f0 + 1, len - 1)
  IN IF f0 >= len \/ end >= len THEN <<>>
     ELSE <<Slice(sysex_data, f0, end + 1)>>
          \o split_from(sysex_data, end + 1)

\* _split_sysex_messages
split_sysex_messages(sysex_data) == split_from(sysex_data, 0)

\* the guard of lines 68 and 125
HasColorByte(messages, control_index) ==
  /\ MsgIndex(control_index) < Len(messages)
  /\ ColorPos(control_index) < Len(messages[MsgIndex(control_index) + 1])

\* one iteration of the loop of _extract_colors_from_sysex (lines 67-81)
extract_control(colors, messages, control_index) ==
  IF HasColorByte(messages, control_index)
     /\ control_index_to_position(control_index) # NoPosition
  THEN [colors EXCEPT ![control_index_to_position(control_index)] =
          color_name_of(ByteAt(messages, MsgIndex(control_index),
                               ColorPos(control_index)))]
  ELSE colors

\* the iterations first..last of that loop, in order
RECURSIVE extract_range(_, _, _, _)
extract_range(colors, messages, first, last) ==
  IF first > last THEN colors
  ELSE IF first = last
       THEN extract_control(colors, messages, first)
       ELSE LET mid == (first + last) \div 2
                done == extract_range(colors, messages, first, mid)
            IN IF DOMAIN done = DOMAIN colors   \* evaluates `done` first
               THEN extract_range(done, messages, mid + 1, last)
               ELSE done

\* _extract_colors_from_sysex: self.colors when it returns
extract_colors_from_sysex(colors, sysex_data) ==
  extract_range(colors, split_sysex_messages(sysex_data), 0, NumControls - 1)

\* self.colors.get((row, col), 'off') (line 129)
colors_get(colors, position) ==
  IF position \in DOMAIN colors THEN colors[position] ELSE "off"

\* the loop body storing the color value at the CC offset of the control
apply_control_at_cc_pos(colors, messages, control_index) ==
  IF HasColorByte(messages, control_index)
     /\ control_index_to_position(control_index) # NoPosition
  THEN SetByte(messages, MsgIndex(control_index), CcPos(control_index),
               color_value_of(colors_get(colors,
                                         control_index_to_position(control_index))))
  ELSE messages

\* one iteration of the loop of _apply_colors_to_sysex (lines 124-131)
apply_control(colors, messages, control_index) ==
  IF HasColorByte(messages, control_index)
     /\ control_index_to_position(control_index) # NoPosition
  THEN SetByte(messages, MsgIndex(control_index), ColorPos(control_index),
               color_value_of(colors_get(colors,
                                         control_index_to_position(control_index))))
  ELSE messages

\* the iterations first..last of that loop, in order
RECURSIVE apply_range(_, _, _, _)
apply_range(colors, messages, first, last) ==
  IF first > last THEN messages
  ELSE IF first = last
       THEN apply_control(colors, messages, first)
       ELSE LET mid == (first + last) \div 2
                done == apply_range(colors, messages, first, mid)
            IN IF Len(done) = Len(messages)   \* evaluates `done` first
               THEN apply_range(colors, done, mid + 1, last)
               ELSE done

\* _apply_colors_to_sysex: its local `messages` when the loop is over
apply_colors_to_sysex(colors, original_data) ==
  apply_range(colors, split_sysex_messages(original_data), 0, NumControls - 1)

(* ------------------------ led_mapper.py: the editor --------------------- *)

\* COLOR_NAMES: the names of the color table, in its order
COLOR_NAMES == [k \in DOMAIN COLOR_MAP |-> COLOR_MAP[k][1]]

\* what stdscr.getch() returns, by the branch of _curses_main (lines
\* 257-301) that takes it: the arrows; " " / c / C / tab; 353 / 351 (shift
\* tab); r / R; o / O; x / X; and a key no branch takes
KEY_UP == "KEY_UP"

KEY_DOWN == "KEY_DOWN"

KEY_LEFT == "KEY_LEFT"

KEY_RIGHT == "KEY_RIGHT"

CycleForward == "c"

CycleBackward == "shift-tab"

PaintRow == "r"

PaintColumn == "o"

AllOff == "x"

OtherKey == "other"

ArrowKeys == {KEY_UP, KEY_DOWN, KEY_LEFT, KEY_RIGHT}

EditKeys ==
  ArrowKeys \cup {CycleForward, CycleBackward, PaintRow, PaintColumn, AllOff,
                  OtherKey}

\* self.colors[position] = color_name
colors_set(colors, position, color_name) ==
  [p \in DOMAIN colors \cup {position} |->
     IF p = position THEN color_name ELSE colors[p]]

\* the KEY_DOWN branch stepping onto the slider row
cursor_row_after_onto_sliders(cursor_row, key) ==
  IF key = KEY_UP
  THEN IF cursor_row = 4 THEN 2
       ELSE IF cursor_row - 1 > 0 THEN cursor_row - 1 ELSE 0
  ELSE IF key = KEY_DOWN
       THEN IF cursor_row + 1 < 5 THEN cursor_row + 1 ELSE 5
       ELSE cursor_row

\* self.cursor_row after a key (lines 261-272)
cursor_row_after(cursor_row, key) ==
  IF key = KEY_UP
  THEN IF cursor_row = 4 THEN 2
       ELSE IF cursor_row - 1 > 0 THEN cursor_row - 1 ELSE 0
  ELSE IF key = KEY_DOWN
       THEN IF cursor_row = 2 THEN 4
            ELSE IF cursor_row + 1 < 5 THEN cursor_row + 1 ELSE 5
       ELSE cursor_row

\* self.cursor_col after a key (lines 273-276)
cursor_col_after(cursor_col, key) ==
  IF key = KEY_LEFT
  THEN IF cursor_col - 1 > 0 THEN cursor_col - 1 ELSE 0
  ELSE IF key = KEY_RIGHT
       THEN IF cursor_col + 1 < 7 THEN cursor_col + 1 ELSE 7
       ELSE cursor_col

\* self.current_color_idx after a key (lines 279, 284)
color_idx_after(current_color_idx, key) ==
  IF key = CycleForward THEN (current_color_idx + 1) % Len(COLOR_NAMES)
  ELSE IF key = CycleBackward THEN (current_color_idx - 1) % Len(COLOR_NAMES)
       ELSE current_color_idx

\* the loop of the R branch painting with the color of column 0 of the row
row_painted_from_first(colors, cursor_row, cursor_col) ==
  LET current_color == colors_get(colors, <<cursor_row, 0>>)
  IN [p \in DOMAIN colors \cup {<<cursor_row, col>> : col \in 0 .. 7} |->
        IF p[1] = cursor_row /\ p[2] \in 0 .. 7 THEN current_color
        ELSE colors[p]]

\* self.colors after the loop of the R branch (lines 287-291)
row_painted(colors, cursor_row, cursor_col) ==
  LET current_color == colors_get(colors, <<cursor_row, cursor_col>>)
  IN [p \in DOMAIN colors \cup {<<cursor_row, col>> : col \in 0 .. 7} |->
        IF p[1] = cursor_row /\ p[2] \in 0 .. 7 THEN current_color
        ELSE colors[p]]

\* self.colors after the loop of the O branch (lines 292-296)
column_painted(colors, cursor_row, cursor_col) ==
  LET current_color == colors_get(colors, <<cursor_row, cursor_col>>)
  IN [p \in DOMAIN colors \cup {<<row, cursor_col>> : row \in 0 .. 5} |->
        IF p[2] = cursor_col /\ p[1] \in 0 .. 5 THEN current_color
        ELSE colors[p]]

\* self.colors after the loops of the X branch (lines 297-301)
all_off(colors) ==
  [p \in DOMAIN colors \cup ((0 .. 5) \X (0 .. 7)) |->
     IF p[1] \in 0 .. 5 /\ p[2] \in 0 .. 7 THEN "off" ELSE colors[p]]

\* self.colors after a key (lines 277-301); the cycle branches store the
\* name at the new index
colors_after(colors, cursor_row, cursor_col, current_color_idx, key) ==
  IF key \in {CycleForward, CycleBackward}
  THEN colors_set(colors, <<cursor_row, cursor_col>>,
                  COLOR_NAMES[color_idx_after(current_color_idx, key) + 1])
  ELSE IF key = PaintRow THEN row_painted(colors, cursor_row, cursor_col)
  ELSE IF key = PaintColumn THEN column_painted(colors, cursor_row, cursor_col)
  ELSE IF key = AllOff THEN all_off(colors)
  ELSE colors

\* the fields of a LEDColorMapper after __init__ (lines 19-27)
fresh_mapper ==
  [colors |-> fresh_colors, cursor_row |-> 0, cursor_col |-> 0,
   current_color_idx |-> 0]

\* one pass of the loop of _curses_main for a key that does not end it
handle_key(mapper, key) ==
  [colors |-> colors_after(mapper.colors, mapper.cursor_row, mapper.cursor_col,
                           mapper.current_color_idx, key),
   cursor_row |-> cursor_row_after(mapper.cursor_row, key),
   cursor_col |-> cursor_col_after(mapper.cursor_col, key),
   current_color_idx |-> color_idx_after(mapper.current_color_idx, key)]

(* -------------------------------- state -------------------------------- *)

VARIABLES
  base_messages,    \* self.base_messages
  channel_mode,     \* the arguments of the call
  cc_mode,
  global_channel,
  min_cc_value,
  cc_reverse,
  template_num,     \* argument of the latest generate_template call (0: none)
  messages,         \* its local `messages` when it returned or raised
  result,           \* "none" (no call yet), "ok", or the exception it raised
  pc,               \* the top-level call: "start", "loop", "returned", "raised"
  template_count,   \* generate_all_templates: its template_count argument
  dir_exists,       \* output_dir exists
  files,            \* output_dir: template number |-> bytes of {prefix}_T{NN}.syx
  generated_files,  \* generate_all_templates: its local generated_files
  error,            \* the exception the top-level call raised ("none")
  caller_stores,    \* how often the caller has altered frames it was handed
  template_file,    \* the bytes of the template file the mapper edits
  sysex_data,       \* the bytes the mapper read from it (template_data)
  split_frames,     \* the local `messages` of the latest mapper method
  colors,           \* self.colors of the LEDColorMapper
  mapper_pc,        \* the mapper call: "unused", "start", "editor", ...
  mapper_error,     \* the exception the mapper call raised ("none")
  cursor_row,       \* self.cursor_row
  cursor_col,       \* self.cursor_col
  current_color_idx,  \* self.current_color_idx
  keys_pressed,     \* how many keys the editor has taken during the call
  session_end,      \* how the latest editor session ended ("none")
  pending_files,    \* edit_multiple_templates: the files still to edit
  twin              \* a mapper made anew for the session, given the same
                    \* bytes and the same keys

editor_vars == <<cursor_row, cursor_col, current_color_idx, keys_pressed,
                 session_end, pending_files, twin>>

mapper_vars == <<sysex_data, split_frames, colors, template_file, mapper_pc,
                 mapper_error, editor_vars>>

generator_vars ==
  <<base_messages, channel_mode, cc_mode, global_channel, min_cc_value,
    cc_reverse, template_num, messages, result, pc, template_count,
    dir_exists, files, generated_files, error, caller_stores>>

vars == <<generator_vars, mapper_vars>>

args == <<channel_mode, cc_mode, global_channel, min_cc_value, cc_reverse>>

GlobalChannelArgs ==
  {None, PyFloat(5)} \cup {PyInt(c) : c \in 0 .. MaxChannelArg}

TemplateCountArgs ==
  {PyFloat(3)} \cup {PyInt(c) : c \in 0 .. MaxCountArg}

MinCCArgs == {SAFE_CC_MIN - 1, DEFAULT_MIN_CC_VALUE, HighMinCC, MAX_CC_VALUE}

\* the defaults of generate_template's channel arguments (lines 195, 197)
DefaultChannelArgs ==
  channel_mode = PER_TEMPLATE /\ global_channel = None

\* the defaults of its CC arguments (lines 196, 198, 199)
DefaultCCArgs ==
  cc_mode = RESTART_PER_TEMPLATE /\ min_cc_value = DEFAULT_MIN_CC_VALUE
  /\ cc_reverse = FALSE

NoFiles == [n \in {} |-> <<>>]

\* the cursor and the color index __init__ sets (lines 20-22)
FreshCursor ==
  /\ cursor_row = fresh_mapper.cursor_row
  /\ cursor_col = fresh_mapper.cursor_col
  /\ current_color_idx = fresh_mapper.current_color_idx

\* no editor session has been run and no list of templates is being edited
NoSession ==
  /\ keys_pressed = 0
  /\ session_end = "none"
  /\ pending_files = <<>>
  /\ twin = fresh_mapper

\* no LEDColorMapper has been made and there is no template to edit
MapperUnused ==
  /\ template_file = <<>>
  /\ sysex_data = <<>>
  /\ split_frames = <<>>
  /\ colors = <<>>
  /\ mapper_pc = "unused"
  /\ mapper_error = "none"
  /\ FreshCursor
  /\ NoSession

\* A fresh generator (__init__, line 31), an empty output directory, and the
\* arguments of the one top-level call of the run (cli.py:146-156 makes one
\* call per generator).  The channel arguments and the CC arguments are each
\* swept over their whole set while the other group is at its defaults.
Init ==
  /\ base_messages = EMBEDDED_MSGS
  /\ channel_mode \in ChannelMode
  /\ cc_mode \in CCMode
  /\ global_channel \in GlobalChannelArgs
  /\ min_cc_value \in MinCCArgs
  /\ cc_reverse \in BOOLEAN
  /\ DefaultChannelArgs \/ DefaultCCArgs
  /\ template_num = 0
  /\ messages = <<>>
  /\ result = "none"
  /\ pc = "start"
  /\ template_count = None
  /\ dir_exists = FALSE
  /\ files = NoFiles
  /\ generated_files = <<>>
  /\ error = "none"
  /\ caller_stores = 0
  /\ MapperUnused

\* the top-level call generate_template(t_num, ...)
GenerateTemplate(t_num) ==
  /\ pc = "start"
  /\ LET r == generate_template(base_messages, t_num, channel_mode, cc_mode,
                                global_channel, min_cc_value, cc_reverse)
     IN /\ messages' = r.messages
        /\ base_messages' = r.base
        /\ result' = IF r.raised = "none" THEN "ok" ELSE r.raised
        /\ error' = r.raised
        /\ pc' = IF r.raised = "none" THEN "returned" ELSE "raised"
  /\ template_num' = t_num
  /\ UNCHANGED <<args, template_count, dir_exists, files, generated_files,
                 caller_stores, mapper_vars>>

\* the top-level call generate_all_templates(count, ...), lines 260-277:
\* validation, then mkdir (which the file system lets succeed or fail)
GenerateAllBegin(count, mkdir_ok) ==
  /\ pc = "start"
  /\ template_count' = count
  /\ IF validate_template_count_raises(count) # "none"
     THEN /\ pc' = "raised"
          /\ error' = validate_template_count_raises(count)
          /\ UNCHANGED dir_exists
     ELSE IF mkdir_ok
          THEN /\ pc' = "loop"
               /\ dir_exists' = TRUE
               /\ UNCHANGED error
          ELSE /\ pc' = "raised"
               /\ error' = "IOError"
               /\ UNCHANGED dir_exists
  /\ UNCHANGED <<base_messages, args, template_num, messages, result, files,
                 generated_files, caller_stores, mapper_vars>>

\* what write_bytes (line 162) can do: write the whole file; fail to open
\* it, leaving the directory as it was; or fail after opening it, leaving
\* the file truncated
WriteOutcomes == {"written", "open_failed", "write_failed"}

\* that iteration with an except clause that logs the failed write and does
\* not raise it again
GenerateAllIteration_keeps_going ==
  /\ pc = "loop"
  /\ Len(generated_files) < template_count.val
  /\ LET t_num == Len(generated_files) + 1
         r == generate_template(base_messages, t_num, channel_mode, cc_mode,
                                global_channel, min_cc_value, cc_reverse)
     IN /\ template_num' = t_num
        /\ messages' = r.messages
        /\ base_messages' = r.base
        /\ result' = IF r.raised = "none" THEN "ok" ELSE r.raised
        /\ IF r.raised # "none"
           THEN /\ pc' = "raised"
                /\ error' = r.raised
                /\ UNCHANGED <<files, generated_files>>
           ELSE \E outcome \in WriteOutcomes :
                  IF outcome = "written"
                  THEN /\ files' = (t_num :> JoinMessages(r.messages)) @@ files
                       /\ generated_files' = Append(generated_files, t_num)
                       /\ UNCHANGED <<pc, error>>
                  ELSE /\ UNCHANGED <<pc, error>>
                       /\ files' = IF outcome = "write_failed"
                                   THEN (t_num :> <<>>) @@ files
                                   ELSE files
                       /\ UNCHANGED generated_files
  /\ UNCHANGED <<args, template_count, dir_exists, caller_stores, mapper_vars>>

\* generate_all_templates, lines 279-307: one iteration of the loop
GenerateAllIteration ==
  /\ pc = "loop"
  /\ Len(generated_files) < template_count.val
  /\ LET t_num == Len(generated_files) + 1
         r == generate_template(base_messages, t_num, channel_mode, cc_mode,
                                global_channel, min_cc_value, cc_reverse)
     IN /\ template_num' = t_num
        /\ messages' = r.messages
        /\ base_messages' = r.base
        /\ result' = IF r.raised = "none" THEN "ok" ELSE r.raised
        /\ IF r.raised # "none"
           THEN /\ pc' = "raised"
                /\ error' = r.raised
                /\ UNCHANGED <<files, generated_files>>
           ELSE \E outcome \in WriteOutcomes :
                  IF outcome = "written"
                  THEN /\ files' = (t_num :> JoinMessages(r.messages)) @@ files
                       /\ generated_files' = Append(generated_files, t_num)
                       /\ UNCHANGED <<pc, error>>
                  ELSE /\ pc' = "raised"
                       /\ error' = "IOError"
                       /\ files' = IF outcome = "write_failed"
                                   THEN (t_num :> <<>>) @@ files
                                   ELSE files
                       /\ UNCHANGED generated_files
  /\ UNCHANGED <<args, template_count, dir_exists, caller_stores, mapper_vars>>

\* generate_all_templates, line 309: the range is exhausted
GenerateAllReturn ==
  /\ pc = "loop"
  /\ Len(generated_files) >= template_count.val
  /\ pc' = "returned"
  /\ UNCHANGED <<base_messages, args, template_num, messages, result,
                 template_count, dir_exists, files, generated_files, error,
                 caller_stores, mapper_vars>>

Next ==
  \/ \E t_num \in 1 .. MaxTemplateNum : GenerateTemplate(t_num)
  \/ \E count \in TemplateCountArgs, mkdir_ok \in BOOLEAN :
       GenerateAllBegin(count, mkdir_ok)
  \/ GenerateAllIteration
  \/ GenerateAllReturn

Spec == Init /\ [][Next]_vars

(* ------------------------- several calls in a row ----------------------- *)

\* how often the caller may alter returned frames in one run
MaxCallerStores == 2

\* the largest template_count of a batch that follows other calls
MaxChainedCount == 2

ChainedCountArgs == {PyInt(c) : c \in 0 .. MaxChainedCount}

\* the template numbers of the calls of such a run: the first two and one
\* past the last MIDI channel
ChainedTemplateNums == {1, 2, MAX_MIDI_CHANNEL + 1}

\* the arguments of the calls of such a run: the defaults; a global channel
\* that _validate_channel rejects; a global channel with a reversed
\* continuous assignment
ChainedArgs ==
  { <<PER_TEMPLATE, RESTART_PER_TEMPLATE, None, DEFAULT_MIN_CC_VALUE, FALSE>>,
    <<GLOBAL, RESTART_PER_TEMPLATE, PyInt(MAX_MIDI_CHANNEL + 1),
      DEFAULT_MIN_CC_VALUE, FALSE>>,
    <<GLOBAL, CONTINUOUS, PyInt(5), HighMinCC, TRUE>> }

\* the byte the caller stores into the frames it was handed: offset 1 of
\* frame 0, which no control patches
CallerMsgIndex == 0

CallerPos == 1

CallerByte == 127

InitCalls ==
  /\ Init
  /\ args \in ChainedArgs

\* Between two calls on the same generator: generate_template has returned
\* its list `messages` (line 228) or raised; the caller overwrites a byte of
\* the frames it was handed, if it was handed any, and goes on to its next
\* call with arguments of its choice.  The store reaches base_messages only
\* if the returned buffers are the base buffers.
CallerContinues(next_args) ==
  /\ pc \in {"returned", "raised"}
  /\ template_count = None
  /\ pc' = "start"
  /\ channel_mode' = next_args[1]
  /\ cc_mode' = next_args[2]
  /\ global_channel' = next_args[3]
  /\ min_cc_value' = next_args[4]
  /\ cc_reverse' = next_args[5]
  /\ IF result = "ok"
     THEN /\ caller_stores < MaxCallerStores
          /\ caller_stores' = caller_stores + 1
          /\ messages' = SetByte(messages, CallerMsgIndex, CallerPos, CallerByte)
          /\ base_messages' = IF clone_messages(base_messages).shares
                              THEN messages'
                              ELSE base_messages
     ELSE UNCHANGED <<messages, base_messages, caller_stores>>
  /\ UNCHANGED <<template_num, result, template_count, dir_exists, files,
                 generated_files, error, mapper_vars>>

NextCalls ==
  \/ \E t_num \in ChainedTemplateNums : GenerateTemplate(t_num)
  \/ \E next_args \in ChainedArgs : CallerContinues(next_args)
  \/ \E count \in ChainedCountArgs, mkdir_ok \in BOOLEAN :
       GenerateAllBegin(count, mkdir_ok)
  \/ GenerateAllIteration
  \/ GenerateAllReturn

\* one generator receiving generate_template calls with varying arguments,
\* the caller altering the returned frames in between, and then a batch
SpecCalls == InitCalls /\ [][NextCalls]_vars

(* ------------------------- the LED color mapper ------------------------ *)

\* no SysExTemplateGenerator has been made
GeneratorUnused ==
  /\ base_messages = <<>>
  /\ channel_mode = PER_TEMPLATE
  /\ cc_mode = RESTART_PER_TEMPLATE
  /\ global_channel = None
  /\ min_cc_value = DEFAULT_MIN_CC_VALUE
  /\ cc_reverse = FALSE
  /\ template_num = 0
  /\ messages = <<>>
  /\ result = "none"
  /\ pc = "unused"
  /\ template_count = None
  /\ dir_exists = FALSE
  /\ files = NoFiles
  /\ generated_files = <<>>
  /\ error = "none"
  /\ caller_stores = 0

\* the longest byte stream given to _split_sysex_messages on its own
MaxStreamLen == 7

\* the bytes of those streams: the two framing bytes and a data byte
StreamBytes == {SYSEX_START, SYSEX_END, 1}

SmallStreams ==
  UNION {[1 .. n -> StreamBytes] : n \in 0 .. MaxStreamLen}

\* a call of _split_sysex_messages on a stream of a few bytes
InitSplit ==
  /\ GeneratorUnused
  /\ template_file = <<>>
  /\ sysex_data \in SmallStreams
  /\ split_frames = <<>>
  /\ colors = fresh_colors
  /\ mapper_pc = "split"
  /\ mapper_error = "none"
  /\ FreshCursor
  /\ NoSession

SplitMessages ==
  /\ mapper_pc = "split"
  /\ split_frames' = split_sysex_messages(sysex_data)
  /\ mapper_pc' = "split_returned"
  /\ UNCHANGED <<generator_vars, template_file, sysex_data, colors,
                 mapper_error, editor_vars>>

NextSplit == SplitMessages

SpecSplit == InitSplit /\ [][NextSplit]_vars

\* color bytes that are no value of COLOR_MAP
UnknownColorBytes == {1, 127}

\* the frames with `value` stored at the color offset of every
\* control of `painted`
Recolored(frames, painted, value) ==
  [m \in DOMAIN frames |->
     [p \in DOMAIN frames[m] |->
        IF \E i \in painted : MsgIndex(i) = m - 1 /\ ColorPos(i) = p - 1
        THEN value
        ELSE frames[m][p]]]

\* two-frame templates: every control painted with one byte, a table value
\* or not; and the base template with one control repainted
TemplateFrames ==
  {Recolored(EMBEDDED_MSGS, ControlIndices, value) :
     value \in ColorValues \cup UnknownColorBytes}
  \cup {Recolored(EMBEDDED_MSGS, {i}, value) :
          i \in ControlIndices, value \in UnknownColorBytes \cup {57}}

\* the length a frame is cut down to in a damaged template
ShortFrameLen == 100

\* a frame cut down to `len` bytes, the last of them 0xF7
CutFrame(frame, len) == Append(SubSeq(frame, 1, len - 1), SYSEX_END)

\* damaged templates: the second frame missing; the second, or the first,
\* frame cut short; the second frame ending at the color offset of its
\* first control; bytes before, between and after the frames; an
\* unterminated third frame; three frames
DamagedStreams ==
  LET f0 == EMBEDDED_MSGS[1]
      f1 == EMBEDDED_MSGS[2]
  IN { f0,
       f0 \o CutFrame(f1, ShortFrameLen),
       CutFrame(f0, ShortFrameLen) \o f1,
       f0 \o CutFrame(f1, ColorPos(NumControls \div 2) + 1),
       <<1>> \o f0 \o f1,
       f0 \o <<1, SYSEX_END>> \o f1,
       f0 \o f1 \o <<1>>,
       f0 \o f1 \o <<SYSEX_START, 1>>,
       f0 \o f1 \o f0,
       <<>> }

TemplateStreams ==
  {JoinMessages(frames) : frames \in TemplateFrames} \cup DamagedStreams

\* a fresh LEDColorMapper and the template file edit_template_file is
\* called with
InitMapper ==
  /\ GeneratorUnused
  /\ template_file \in TemplateStreams
  /\ sysex_data = <<>>
  /\ split_frames = <<>>
  /\ colors = fresh_colors
  /\ mapper_pc = "start"
  /\ mapper_error = "none"
  /\ FreshCursor
  /\ NoSession

\* edit_template_file, lines 42-45 (edit_multiple_templates, lines 187-189):
\* read_bytes, which the file system lets succeed or fail, then
\* _extract_colors_from_sysex into the mapper's colors.  The twin is made
\* anew and given the same bytes.
ReadAndExtract(read_ok) ==
  /\ mapper_pc = "start"
  /\ IF read_ok
     THEN /\ sysex_data' = template_file
          /\ split_frames' = split_sysex_messages(template_file)
          /\ colors' = extract_colors_from_sysex(colors, template_file)
          /\ twin' = [fresh_mapper EXCEPT
                        !.colors = extract_colors_from_sysex(fresh_colors,
                                                             template_file)]
          /\ session_end' = "none"
          /\ mapper_pc' = "editor"
          /\ UNCHANGED mapper_error
     ELSE /\ mapper_pc' = "raised"
          /\ mapper_error' = "IOError"
          /\ UNCHANGED <<sysex_data, split_frames, colors, twin, session_end>>
  /\ UNCHANGED <<generator_vars, template_file, cursor_row, cursor_col,
                 current_color_idx, keys_pressed, pending_files>>

\* the mapper as handle_key takes it
CurrentMapper ==
  [colors |-> colors, cursor_row |-> cursor_row, cursor_col |-> cursor_col,
   current_color_idx |-> current_color_idx]

\* _curses_main, lines 257-301: one turn of the loop on a key that is neither
\* Quit nor Save; a call takes at most max_keys of them.  The twin takes the
\* same key.
PressKey(key, max_keys) ==
  /\ mapper_pc = "editor"
  /\ keys_pressed < max_keys
  /\ LET after == handle_key(CurrentMapper, key)
     IN /\ colors' = after.colors
        /\ cursor_row' = after.cursor_row
        /\ cursor_col' = after.cursor_col
        /\ current_color_idx' = after.current_color_idx
  /\ twin' = handle_key(twin, key)
  /\ keys_pressed' = keys_pressed + 1
  /\ UNCHANGED <<generator_vars, template_file, sysex_data, split_frames,
                 mapper_pc, mapper_error, session_end, pending_files>>

\* how a session of the editor ends: Quit (q, Q), Save (s, S, Enter) or a
\* KeyboardInterrupt
SessionEnds == {"quit", "save", "interrupt"}

\* what run_interactive_editor returns (lines 30-37 with _curses_main, lines
\* 257-260): Quit breaks out of the loop and Save returns from it, and either
\* way the wrapper returns and self.colors is the result; only a
\* KeyboardInterrupt gives None
editor_result(how, colors_now) ==
  IF how = "interrupt" THEN None ELSE PyDict(colors_now)

\* Python's truth of the editor's result: None and the empty dict are false
is_truthy(color_map) == color_map.type = "dict" /\ DOMAIN color_map.val # {}

\* run_interactive_editor returning, and `if color_map:` of edit_template_file
\* (line 49, line 193 of edit_multiple_templates)
EndSession(how) ==
  /\ mapper_pc = "editor"
  /\ session_end' = how
  /\ mapper_pc' = IF is_truthy(editor_result(how, colors)) THEN "apply"
                  ELSE "cancelled"
  /\ UNCHANGED <<generator_vars, template_file, sysex_data, split_frames,
                 colors, mapper_error, cursor_row, cursor_col,
                 current_color_idx, keys_pressed, pending_files, twin>>

\* edit_template_file, lines 50-53 (edit_multiple_templates, lines 194-196):
\* _apply_colors_to_sysex(template_data, template_path), write_bytes writing
\* the file, failing to open it, or failing after it has truncated it
ApplyColors ==
  /\ mapper_pc = "apply"
  /\ split_frames' = apply_colors_to_sysex(colors, sysex_data)
  /\ \E outcome \in WriteOutcomes :
       IF outcome = "written"
       THEN /\ template_file' = JoinMessages(split_frames')
            /\ mapper_pc' = "saved"
            /\ UNCHANGED mapper_error
       ELSE /\ template_file' = IF outcome = "write_failed" THEN <<>>
                                ELSE template_file
            /\ mapper_pc' = "raised"
            /\ mapper_error' = "IOError"
  /\ UNCHANGED <<generator_vars, sysex_data, colors, editor_vars>>

NextMapper ==
  \/ \E read_ok \in BOOLEAN : ReadAndExtract(read_ok)
  \/ \E how \in SessionEnds : EndSession(how)
  \/ ApplyColors

\* one edit_template_file call on a fresh mapper
SpecMapper == InitMapper /\ [][NextMapper]_vars

(* ------------- led_mapper.py: edit_template_file with keys ------------- *)

\* the most keys one edit_template_file call takes before Quit or Save
MaxEditKeys == 2

\* the templates edited with keys: the base template, the base template
\* painted red all over, and one whose second frame is missing
EditStreams ==
  { JoinMessages(EMBEDDED_MSGS),
    JoinMessages(Recolored(EMBEDDED_MSGS, ControlIndices,
                           color_map_value("red"))),
    EMBEDDED_MSGS[1] }

\* a fresh LEDColorMapper and the template file edit_template_file is
\* called with (cli.py, lines 118-119)
InitEdit ==
  /\ GeneratorUnused
  /\ template_file \in EditStreams
  /\ sysex_data = <<>>
  /\ split_frames = <<>>
  /\ colors = fresh_colors
  /\ mapper_pc = "start"
  /\ mapper_error = "none"
  /\ FreshCursor
  /\ NoSession

NextEdit ==
  \/ \E read_ok \in BOOLEAN : ReadAndExtract(read_ok)
  \/ \E key \in EditKeys : PressKey(key, MaxEditKeys)
  \/ \E how \in SessionEnds : EndSession(how)
  \/ ApplyColors

\* one edit_template_file call on a fresh mapper, keys pressed
SpecEdit == InitEdit /\ [][NextEdit]_vars

(* ---------------- led_mapper.py: edit_multiple_templates --------------- *)

\* the most keys one edit_multiple_templates call takes, all sessions
\* together
MaxMultiKeys == 3

\* the keys pressed there: a cursor move, a color step and a paint
MultiKeys == {KEY_DOWN, CycleForward, PaintColumn}

\* the lists of templates edited in a row, as the bytes of their files
MultiLists ==
  LET base == JoinMessages(EMBEDDED_MSGS)
      red == JoinMessages(Recolored(EMBEDDED_MSGS, ControlIndices,
                                    color_map_value("red")))
      short == CutFrame(EMBEDDED_MSGS[1], ShortFrameLen) \o EMBEDDED_MSGS[2]
  IN { <<base, base>>, <<red, short>>, <<red, EMBEDDED_MSGS[1]>> }

\* a fresh LEDColorMapper and the list edit_multiple_templates is called
\* with (cli.py, lines 163-165)
InitMulti ==
  /\ GeneratorUnused
  /\ pending_files \in MultiLists
  /\ template_file = <<>>
  /\ sysex_data = <<>>
  /\ split_frames = <<>>
  /\ colors = fresh_colors
  /\ mapper_pc = "next"
  /\ mapper_error = "none"
  /\ FreshCursor
  /\ keys_pressed = 0
  /\ session_end = "none"
  /\ twin = fresh_mapper

\* the head of the loop (line 183): the next template, or return True
\* (line 214) when there is none
MultiNext ==
  /\ mapper_pc = "next"
  /\ IF pending_files = <<>>
     THEN /\ mapper_pc' = "returned_true"
          /\ UNCHANGED <<template_file, pending_files>>
     ELSE /\ template_file' = Head(pending_files)
          /\ pending_files' = Tail(pending_files)
          /\ mapper_pc' = "start"
  /\ UNCHANGED <<generator_vars, sysex_data, split_frames, colors,
                 mapper_error, cursor_row, cursor_col, current_color_idx,
                 keys_pressed, session_end, twin>>

\* the end of one turn of the loop (lines 196-212): after a save the loop
\* goes on; after a cancelled session or an exception, show_menu asks, unless
\* this was the last template, and any choice but "Yes" returns False
MultiContinue(choice) ==
  /\ mapper_pc \in {"saved", "cancelled", "raised"}
  /\ mapper_pc' = IF mapper_pc = "saved" \/ pending_files = <<>> \/ choice = 0
                  THEN "next"
                  ELSE "returned_false"
  /\ UNCHANGED <<generator_vars, template_file, sysex_data, split_frames,
                 colors, mapper_error, editor_vars>>

NextMulti ==
  \/ MultiNext
  \/ \E read_ok \in BOOLEAN : ReadAndExtract(read_ok)
  \/ \E key \in MultiKeys : PressKey(key, MaxMultiKeys)
  \/ \E how \in SessionEnds : EndSession(how)
  \/ ApplyColors
  \/ \E choice \in {0, 1} : MultiContinue(choice)

\* one edit_multiple_templates call on a fresh mapper
SpecMulti == InitMulti /\ [][NextMulti]_vars

(* ------------- led_mapper.py: the editor run on its own ---------------- *)

\* the most keys of any kind the editor takes before Quit or Save
MaxEditorKeys == 3

\* the most keys it takes when the later ones are arrows, enough to run the
\* cursor into every edge of the grid
MaxCursorKeys == 12

\* a fresh LEDColorMapper in run_interactive_editor (cli.py, lines 130-131)
InitEditor ==
  /\ GeneratorUnused
  /\ template_file = <<>>
  /\ sysex_data = <<>>
  /\ split_frames = <<>>
  /\ colors = fresh_colors
  /\ mapper_pc = "editor"
  /\ mapper_error = "none"
  /\ FreshCursor
  /\ NoSession

\* run_interactive_editor returning to cli.py (lines 131-136), which only
\* reports
EditorReturns(how) ==
  /\ mapper_pc = "editor"
  /\ session_end' = how
  /\ mapper_pc' = IF is_truthy(editor_result(how, colors)) THEN "configured"
                  ELSE "cancelled"
  /\ UNCHANGED <<generator_vars, template_file, sysex_data, split_frames,
                 colors, mapper_error, cursor_row, cursor_col,
                 current_color_idx, keys_pressed, pending_files, twin>>

NextEditor ==
  \/ \E key \in EditKeys : PressKey(key, MaxEditorKeys)
  \/ \E key \in ArrowKeys : PressKey(key, MaxCursorKeys)
  \/ \E how \in SessionEnds : EditorReturns(how)

\* one run of the editor on a fresh mapper
SpecEditor == InitEditor /\ [][NextEditor]_vars

(* ------------------------------ properties ----------------------------- *)

\* the bytes of the frames of the latest generate_template call
CCByte(control_index) ==
  ByteAt(messages, MsgIndex(control_index), CcPos(control_index))

ChannelByte(control_index) ==
  ByteAt(messages, MsgIndex(control_index), ChPos(control_index))

FlagByte(control_index) ==
  ByteAt(messages, MsgIndex(control_index), FlagPos(control_index))

\* the CC byte of a control in the written file of template t_num (the file
\* is frame 0 followed by frame 1)
FileCCByte(t_num, control_index) ==
  files[t_num][(IF MsgIndex(control_index) = 0 THEN 0 ELSE Len(EMBEDDED_MSGS[1]))
               + CcPos(control_index) + 1]

\* the safe range [lo, hi] of the call
lo == IF min_cc_value > SAFE_CC_MIN THEN min_cc_value ELSE SAFE_CC_MIN

hi == SAFE_CC_MAX

WrittenTemplates == {generated_files[k] : k \in DOMAIN generated_files}

\* the (template, control) pairs of the written files whose CC byte is set
AssignedCCs ==
  {p \in WrittenTemplates \X ControlIndices : FileCCByte(p[1], p[2]) # 0}

\* C2: in continuous mode the non-zero CC bytes of the templates written by
\* one batch are pairwise different (as many different values as assigned
\* (template, control) pairs), and a control whose logical offset t*N+i has
\* reached the size of the safe range carries 0, not a wrapped value.
C2_ContinuousNeverRepeatsACC ==
  cc_mode = CONTINUOUS =>
    /\ Cardinality({FileCCByte(p[1], p[2]) : p \in AssignedCCs})
         = Cardinality(AssignedCCs)
    /\ \A t \in WrittenTemplates, i \in ControlIndices :
         ((t - 1) * NumControls) + i >= hi - lo + 1 => FileCCByte(t, i) = 0

\* C2 witness: a batch that has written past the end of the safe range:
\* template 3 holds the last assignable CC and disabled controls.
C2_Witness ==
  /\ cc_mode = CONTINUOUS
  /\ min_cc_value = DEFAULT_MIN_CC_VALUE
  /\ {1, 2, 3, 4} \subseteq WrittenTemplates
  /\ \E i \in ControlIndices :
       FileCCByte(3, i) # 0 /\ i + 1 \in ControlIndices /\ FileCCByte(3, i + 1) = 0
  /\ FileCCByte(4, 0) = 0

\* C3: in restart mode without reverse, control i gets lo + i when that is
\* at most hi and 0 otherwise, whatever the template number: in the frames
\* of every call and in every file of a batch.
C3_RestartIsAscendingRunFromLo ==
  (cc_mode = RESTART_PER_TEMPLATE /\ ~cc_reverse) =>
    /\ result = "ok" =>
         \A i \in ControlIndices :
           CCByte(i) = IF lo + i <= hi THEN lo + i ELSE 0
    /\ \A t \in WrittenTemplates, i \in ControlIndices :
         FileCCByte(t, i) = IF lo + i <= hi THEN lo + i ELSE 0

\* C3 witness: a batch numbered from a raised minimum that has written a
\* template after the first: its run starts at lo and ends in disabled
\* controls, as the first template's does.
C3_Witness ==
  /\ cc_mode = RESTART_PER_TEMPLATE
  /\ ~cc_reverse
  /\ min_cc_value = HighMinCC
  /\ result = "ok"
  /\ {1, 2} \subseteq WrittenTemplates
  /\ FileCCByte(2, 0) = HighMinCC
  /\ FileCCByte(2, 1) = HighMinCC + 1
  /\ FileCCByte(2, NumControls - 1) = 0
  /\ FileCCByte(1, 0) = HighMinCC

\* the default safe range: numbering starts at DEFAULT_MIN_CC_VALUE, forward
DefaultSafeRange == min_cc_value = DEFAULT_MIN_CC_VALUE /\ ~cc_reverse

\* C4 as stated: the table has 47 entries, so template 2 in continuous mode
\* writes CC byte 48 at control 0 (and template 1 in restart mode writes 1).
C4_AsStated ==
  (result = "ok" /\ DefaultSafeRange) =>
    /\ (template_num = 2 /\ cc_mode = CONTINUOUS) =>
         (NumControls = 47 /\ CCByte(0) = (1 * 47) + 0 + 1)
    /\ (template_num = 1 /\ cc_mode = RESTART_PER_TEMPLATE) => CCByte(0) = 1

\* C4 amended: the table has 48 entries, so template 2 in continuous mode
\* writes CC byte 49 (1*48 + 0 + 1) at control 0; template 1 in restart mode
\* writes 1.
C4_Template2StartsAt49 ==
  (result = "ok" /\ DefaultSafeRange) =>
    /\ (template_num = 2 /\ cc_mode = CONTINUOUS) =>
         (NumControls = 48 /\ CCByte(0) = (1 * 48) + 0 + 1)
    /\ (template_num = 1 /\ cc_mode = RESTART_PER_TEMPLATE) => CCByte(0) = 1

\* C4 witness: template 2 generated in continuous mode with the defaults.
C4_Witness ==
  /\ result = "ok"
  /\ DefaultSafeRange
  /\ template_num = 2
  /\ cc_mode = CONTINUOUS
  /\ CCByte(NumControls - 1) = 2 * NumControls

\* C5: after a successful generate_template every control's channel byte is
\* the chosen 1-based channel minus one and lies in 0..15; in GLOBAL mode it
\* is global_channel - 1 for every control and template number.
C5_ChannelByteIsChannelMinusOne ==
  result = "ok" =>
    \A i \in ControlIndices :
      /\ ChannelByte(i) \in 0 .. 15
      /\ channel_mode = GLOBAL => ChannelByte(i) = global_channel.val - 1
      /\ channel_mode = PER_TEMPLATE =>
           ChannelByte(i) = (IF template_num < 16 THEN template_num ELSE 16) - 1

\* C5 witness: global channel 5 on a late template: byte 4 on every control.
C5_Witness ==
  /\ result = "ok"
  /\ channel_mode = GLOBAL
  /\ global_channel = PyInt(5)
  /\ template_num = MaxTemplateNum
  /\ \A i \in ControlIndices : ChannelByte(i) = 4

\* C6: in PER_TEMPLATE mode generate_template succeeds for every template
\* number t >= 1 and writes min(t, 16) - 1 as every control's channel byte.
C6_PerTemplateSaturatesAt16 ==
  (channel_mode = PER_TEMPLATE /\ result # "none") =>
    /\ result = "ok"
    /\ \A i \in ControlIndices :
         ChannelByte(i) = (IF template_num < 16 THEN template_num ELSE 16) - 1

\* C6 witness: a template number above 16 written with channel byte 15.
C6_Witness ==
  /\ channel_mode = PER_TEMPLATE
  /\ result = "ok"
  /\ template_num > MAX_MIDI_CHANNEL
  /\ \A i \in ControlIndices : ChannelByte(i) = 15

\* C7: in GLOBAL mode a call with an integer global_channel outside 1..16
\* raises the invalid-channel error, one with no global_channel raises the
\* missing-parameter error, and neither returns frames (nor writes a file).
C7_GlobalChannelErrors ==
  (channel_mode = GLOBAL /\ result # "none") =>
    /\ (IsInt(global_channel) /\ global_channel.val \notin 1 .. 16) =>
         (result = "InvalidChannel" /\ error = "InvalidChannel"
          /\ pc = "raised" /\ generated_files = <<>>)
    /\ global_channel = None =>
         (result = "MissingParameter" /\ error = "MissingParameter"
          /\ pc = "raised" /\ generated_files = <<>>)

\* C7 witness: channel 17 rejected.
C7_Witness ==
  /\ channel_mode = GLOBAL
  /\ global_channel = PyInt(MAX_MIDI_CHANNEL + 1)
  /\ result = "InvalidChannel"
  /\ pc = "raised"

\* C8: when generate_template raises a validation error its cloned frames
\* are still the base frames, the base frames are unchanged, and no file of
\* the rejected template has been written.
C8_ValidationErrorsBeforeAnyWrite ==
  result \in {"InvalidChannel", "MissingParameter"} =>
    /\ messages = base_messages
    /\ base_messages = EMBEDDED_MSGS
    /\ template_num \notin DOMAIN files
    /\ generated_files = <<>>

\* C8 witness: a batch whose first template is rejected for its channel.
C8_Witness ==
  /\ result = "InvalidChannel"
  /\ IsInt(template_count)
  /\ dir_exists
  /\ template_num = 1
  /\ pc = "raised"

\* C9: generate_all_templates rejects a count outside 1..15, or one that is
\* not an integer, with the invalid-template-count error and has then
\* neither created the directory nor written a file; a count in 1..15
\* passes validation.
C9_TemplateCountValidatedFirst ==
  template_count # None =>
    IF IsInt(template_count) /\ template_count.val \in 1 .. 15
    THEN error # "InvalidTemplateCount"
    ELSE /\ pc = "raised"
         /\ error = "InvalidTemplateCount"
         /\ ~dir_exists
         /\ files = NoFiles

\* C9 witness: the count 16 rejected.
C9_Witness ==
  /\ template_count = PyInt(MAX_TEMPLATE_COUNT + 1)
  /\ error = "InvalidTemplateCount"
  /\ ~dir_exists

PatchedPositions ==
  [msg_index \in {0, 1} |->
     UNION {{CcPos(i), ChPos(i), FlagPos(i)} :
              i \in {j \in ControlIndices : MsgIndex(j) = msg_index}}]

\* C11: the frames a successful generate_template returns are as many and
\* as long as the base frames, and equal the base frames at every offset
\* that is not a cc_pos, ch_pos or flag_pos of a control of that frame; so
\* byte 0 is still 0xF0, the last byte still 0xF7, and every color byte is
\* the base frame's.
C11_OnlyPatchedOffsetsChange ==
  result = "ok" =>
    /\ Len(messages) = Len(EMBEDDED_MSGS)
    /\ \A m \in {0, 1} :
         /\ Len(messages[m + 1]) = Len(EMBEDDED_MSGS[m + 1])
         /\ \A pos \in 0 .. (Len(EMBEDDED_MSGS[m + 1]) - 1) :
              pos \notin PatchedPositions[m] =>
                ByteAt(messages, m, pos) = ByteAt(EMBEDDED_MSGS, m, pos)
         /\ ByteAt(messages, m, 0) = 240
         /\ ByteAt(messages, m, Len(messages[m + 1]) - 1) = 247
    /\ \A i \in ControlIndices :
         ByteAt(messages, MsgIndex(i), ColorPos(i))
           = ByteAt(EMBEDDED_MSGS, MsgIndex(i), ColorPos(i))

\* C11 witness: a successful call that changed a CC byte, a channel byte
\* and a flag byte of the base frames.
C11_Witness ==
  /\ result = "ok"
  /\ \E i \in ControlIndices :
       CCByte(i) # ByteAt(EMBEDDED_MSGS, MsgIndex(i), CcPos(i))
  /\ \E i \in ControlIndices :
       ChannelByte(i) # ByteAt(EMBEDDED_MSGS, MsgIndex(i), ChPos(i))
  /\ \E i \in ControlIndices :
       FlagByte(i) # ByteAt(EMBEDDED_MSGS, MsgIndex(i), FlagPos(i))

\* what generate_template returns for the arguments of the latest call on a
\* generator that has never been used
FreshResult(t_num) ==
  generate_template(EMBEDDED_MSGS, t_num, channel_mode, cc_mode,
                    global_channel, min_cc_value, cc_reverse)

\* a generate_template call with the arguments of the state has just
\* ended: a direct call, or the latest one of the loop of a batch
LatestCallJustEnded ==
  \/ template_count = None /\ pc \in {"returned", "raised"}
  \/ template_count # None /\ dir_exists
     /\ (generated_files # <<>> \/ pc = "raised")

BaseOffsets(msg_index) == 0 .. (Len(base_messages[msg_index + 1]) - 1)

\* C13: every entry of CONTROLS names frame 0 or frame 1, and its cc_pos,
\* ch_pos and color_pos, and its flag_pos when it has one (it is not
\* negative), are offsets inside that base frame.
C13_ControlOffsetsInsideBaseFrame ==
  \A i \in ControlIndices :
    /\ MsgIndex(i) \in {0, 1}
    /\ MsgIndex(i) < Len(base_messages)
    /\ CcPos(i) \in BaseOffsets(MsgIndex(i))
    /\ ChPos(i) \in BaseOffsets(MsgIndex(i))
    /\ ColorPos(i) \in BaseOffsets(MsgIndex(i))
    /\ FlagPos(i) >= 0 => FlagPos(i) \in BaseOffsets(MsgIndex(i))

\* C13 witness: a successful call has stored a new CC byte at the greatest
\* cc_pos of the table.
C13_Witness ==
  /\ result = "ok"
  /\ \E i \in ControlIndices :
       /\ \A j \in ControlIndices : CcPos(j) <= CcPos(i)
       /\ CCByte(i) # ByteAt(EMBEDDED_MSGS, MsgIndex(i), CcPos(i))

\* The scan of the stream, said without scanning: the 1-based index p lies
\* inside an open frame when some 0xF0 before it has no 0xF7 between it and
\* p; a frame starts at every 0xF0 that does not lie inside an open frame,
\* and ends at the first 0xF7 after its start.
InsideOpenFrame(p) ==
  \E s \in 1 .. (p - 1) :
    /\ sysex_data[s] = SYSEX_START
    /\ \A j \in (s + 1) .. (p - 1) : sysex_data[j] # SYSEX_END

EndsAfter(s) == {e \in (s + 1) .. Len(sysex_data) : sysex_data[e] = SYSEX_END}

SpanEnd(s) == CHOOSE e \in EndsAfter(s) : \A other \in EndsAfter(s) : e <= other

\* the starts of the spans [start, end] of the stream
SpanStarts ==
  {s \in 1 .. Len(sysex_data) :
     /\ sysex_data[s] = SYSEX_START
     /\ ~InsideOpenFrame(s)
     /\ EndsAfter(s) # {}}

\* C14: _split_sysex_messages returns, in stream order, exactly the spans
\* [start, end] with start a 0xF0 met while scanning on from the end of the
\* span before and end the first 0xF7 after it: the bytes before the first
\* 0xF0 and between the spans are dropped, a last 0xF0 without a 0xF7 gives
\* no frame, and every returned frame starts with 0xF0, ends with 0xF7 and
\* holds no other 0xF7.
C14_SplitReturnsTheSpans ==
  mapper_pc = "split_returned" =>
    /\ Len(split_frames) = Cardinality(SpanStarts)
    /\ \A s \in SpanStarts :
         split_frames[Cardinality({t \in SpanStarts : t <= s})]
           = SubSeq(sysex_data, s, SpanEnd(s))
    /\ \A k \in DOMAIN split_frames :
         LET frame == split_frames[k]
         IN /\ Len(frame) >= 2
            /\ frame[1] = SYSEX_START
            /\ frame[Len(frame)] = SYSEX_END
            /\ \A p \in 1 .. (Len(frame) - 1) : frame[p] # SYSEX_END

\* C14 witness: a stream with a byte before the first frame, a byte between
\* two frames and a last 0xF0 without 0xF7, split into its two frames.
C14_Witness ==
  /\ mapper_pc = "split_returned"
  /\ sysex_data = <<1, SYSEX_START, SYSEX_END, 1, SYSEX_START, SYSEX_END,
                    SYSEX_START>>
  /\ split_frames = << <<SYSEX_START, SYSEX_END>>, <<SYSEX_START, SYSEX_END>> >>

\* the stream is a concatenation of well-formed frames: it is empty, or it
\* starts with 0xF0, ends with 0xF7, and every 0xF7 but the last is followed
\* by 0xF0
IsCleanConcatenation(stream) ==
  \/ stream = <<>>
  \/ /\ stream[1] = SYSEX_START
     /\ stream[Len(stream)] = SYSEX_END
     /\ \A p \in 1 .. (Len(stream) - 1) :
          stream[p] = SYSEX_END => stream[p + 1] = SYSEX_START

\* its number K of frames: one per 0xF7
FrameCount(stream) ==
  Cardinality({p \in DOMAIN stream : stream[p] = SYSEX_END})

\* C15: for a stream that is the concatenation of K >= 0 well-formed frames
\* (0xF0 first, 0xF7 last and nowhere else), _split_sysex_messages returns
\* K frames, each well-formed, and joining them with no separator gives the
\* stream back byte for byte -- so they are exactly those K frames.
C15_SplitThenJoinOfCleanStream ==
  mapper_pc = "split_returned" /\ IsCleanConcatenation(sysex_data) =>
    /\ Len(split_frames) = FrameCount(sysex_data)
    /\ JoinMessages(split_frames) = sysex_data
    /\ \A k \in DOMAIN split_frames :
         /\ split_frames[k][1] = SYSEX_START
         /\ FrameCount(split_frames[k]) = 1
         /\ split_frames[k][Len(split_frames[k])] = SYSEX_END

\* C15 witness: a clean stream of three frames, one of them with a data
\* byte, split into three frames that join to the stream.
C15_Witness ==
  /\ mapper_pc = "split_returned"
  /\ IsCleanConcatenation(sysex_data)
  /\ Len(split_frames) = 3
  /\ \E k \in DOMAIN split_frames : Len(split_frames[k]) > 2
  /\ JoinMessages(split_frames) = sysex_data

\* the 1-based place in a two-frame template stream of the byte at 0-based
\* offset pos of frame msg_index
StreamIndex(msg_index, pos) ==
  (IF msg_index = 0 THEN 0 ELSE Len(EMBEDDED_MSGS[1])) + pos + 1

\* a two-frame template stream: two well-formed frames as long as the base
\* frames
IsTwoFrameTemplate(stream) ==
  /\ Len(stream) = Len(EMBEDDED_MSGS[1]) + Len(EMBEDDED_MSGS[2])
  /\ IsCleanConcatenation(stream)
  /\ FrameCount(stream) = 2
  /\ stream[Len(EMBEDDED_MSGS[1])] = SYSEX_END

ColorByteIn(stream, control_index) ==
  stream[StreamIndex(MsgIndex(control_index), ColorPos(control_index))]

\* C16: for a two-frame template stream whose byte at every control's
\* color_pos is a value of COLOR_MAP, extracting the colors into a fresh
\* mapper and applying them back, with no edit in between, writes the same
\* stream byte for byte.
C16_ExtractThenApplyIsIdentity ==
  /\ mapper_pc = "saved"
  /\ IsTwoFrameTemplate(sysex_data)
  /\ \A i \in ControlIndices : ColorByteIn(sysex_data, i) \in ColorValues
  => template_file = sysex_data

\* C16 witness: a saved template with every color byte in the table, some
\* of them not the base template's, some extracted as a color other than
\* 'off', written back unchanged.
C16_Witness ==
  /\ mapper_pc = "saved"
  /\ IsTwoFrameTemplate(sysex_data)
  /\ \A i \in ControlIndices : ColorByteIn(sysex_data, i) \in ColorValues
  /\ sysex_data # JoinMessages(EMBEDDED_MSGS)
  /\ \E position \in DOMAIN colors : colors[position] \notin {"off", "disabled"}
  /\ template_file = sysex_data

\* the 1-based place of the first 0xF7 of the stream after place `from`
\* (the stream has one)
FirstEndAfter(stream, from) ==
  CHOOSE e \in (from + 1) .. Len(stream) :
    /\ stream[e] = SYSEX_END
    /\ \A q \in (from + 1) .. (e - 1) : stream[q] # SYSEX_END

\* the place before frame msg_index (0 or 1) of a clean stream that has
\* such a frame
PlaceBefore(stream, msg_index) ==
  IF msg_index = 0 THEN 0 ELSE FirstEndAfter(stream, 0)

\* the controls whose color byte a clean stream holds: the stream has the
\* frame of the control and the frame is longer than color_pos
ControlsIn(stream) ==
  LET before == [m \in {0, 1} |->
                   IF FrameCount(stream) > m THEN PlaceBefore(stream, m)
                   ELSE 0]
      length == [m \in {0, 1} |->
                   IF FrameCount(stream) > m
                   THEN FirstEndAfter(stream, before[m]) - before[m]
                   ELSE 0]
  IN [i \in {j \in ControlIndices : ColorPos(j) < length[MsgIndex(j)]} |->
        before[MsgIndex(i)] + ColorPos(i) + 1]

\* C17 as stated: for every stream given to the mapper, the file written
\* from the colors extracted from it is as long as the stream and equals it
\* at every place that is not a color_pos of a control of a two-frame
\* template, and holds there the COLOR_MAP byte of the extracted name.
C17_AsStated ==
  mapper_pc = "saved" =>
    /\ Len(template_file) = Len(sysex_data)
    /\ \A p \in DOMAIN sysex_data :
         p \notin {StreamIndex(MsgIndex(i), ColorPos(i)) : i \in ControlIndices}
           => template_file[p] = sysex_data[p]

\* C17: for every stream that is a concatenation of well-formed frames, the
\* file written from the colors extracted from it is as long as the stream,
\* equals it at every place that is not the color_pos of a control inside
\* one of its first two frames, and holds at each such color_pos the
\* COLOR_MAP byte of the name extracted for the control: the original byte
\* when that is a value of COLOR_MAP, the byte of 'off' when it is not.
C17_CleanStreamKeptButForColors ==
  mapper_pc = "saved" /\ IsCleanConcatenation(sysex_data) =>
    LET place == ControlsIn(sysex_data)
        places == {place[i] : i \in DOMAIN place}
    IN /\ Len(template_file) = Len(sysex_data)
       /\ \A p \in DOMAIN sysex_data :
            p \notin places => template_file[p] = sysex_data[p]
       /\ \A i \in DOMAIN place :
            /\ template_file[place[i]]
                 = color_map_value(colors[control_index_to_position(i)])
            /\ template_file[place[i]]
                 = IF sysex_data[place[i]] \in ColorValues
                   THEN sysex_data[place[i]]
                   ELSE color_map_value("off")

\* C17 witness: a saved clean stream in which one control's color byte was
\* no value of COLOR_MAP and is now the byte of 'off', while another
\* control's color byte was a value of COLOR_MAP and is kept.
C17_Witness ==
  /\ mapper_pc = "saved"
  /\ IsCleanConcatenation(sysex_data)
  /\ LET place == ControlsIn(sysex_data)
     IN /\ \E i \in DOMAIN place :
             /\ sysex_data[place[i]] \notin ColorValues
             /\ template_file[place[i]] = color_map_value("off")
        /\ \E i \in DOMAIN place :
             /\ sysex_data[place[i]] \in ColorValues
             /\ template_file[place[i]] = sysex_data[place[i]]

\* the stream lacks the color byte of some control: the frame the control
\* names is missing, or is shorter than color_pos + 1
LacksAColorByte(stream) ==
  \E i \in ControlIndices : ~HasColorByte(split_sysex_messages(stream), i)

\* C18: given a stream in which the frame a control names is missing or is
\* shorter than the control's color_pos + 1, extraction and application end
\* in a malformed-frame error and write nothing; the control is never
\* skipped silently, so the call does not go on to the editor or save.
C18_MalformedFrameIsAnError ==
  /\ mapper_pc \in {"editor", "apply", "cancelled", "saved"}
       => ~LacksAColorByte(sysex_data)
  /\ mapper_pc = "raised" /\ mapper_error # "IOError"
       => mapper_error = "MalformedFrame" /\ template_file = sysex_data

\* the state the code reaches instead: the template of one frame has been
\* read, its second frame's controls skipped, and the file written with no
\* error
C18_SkippedSilently ==
  /\ mapper_pc = "saved"
  /\ mapper_error = "none"
  /\ sysex_data = EMBEDDED_MSGS[1]
  /\ LacksAColorByte(sysex_data)
  /\ template_file = sysex_data

\* the batch so far: the returned list is 1, 2, ..., each of those files is
\* there in full, and a file of a template not in the list is there only as
\* the next template's, after its write failed and the error was raised
BatchInOrder ==
  /\ \A k \in DOMAIN generated_files : generated_files[k] = k
  /\ WrittenTemplates \subseteq DOMAIN files
  /\ \A t \in WrittenTemplates :
       Len(files[t]) = Len(JoinMessages(EMBEDDED_MSGS))
  /\ \A t \in DOMAIN files \ WrittenTemplates :
       /\ t = Len(generated_files) + 1
       /\ pc = "raised"
       /\ error = "IOError"
  /\ pc = "returned" /\ template_count # None =>
       /\ Len(generated_files) = template_count.val
       /\ DOMAIN files = 1 .. template_count.val

\* a step of the batch: nothing happens after an error was raised; a file
\* that is there keeps its content; and the list grows by the next template
\* number, whose file then holds the frames just generated
BatchStep ==
  /\ pc # "raised"
  /\ \A t \in DOMAIN files : t \in DOMAIN files' /\ files'[t] = files[t]
  /\ generated_files' # generated_files =>
       /\ generated_files' = Append(generated_files, Len(generated_files) + 1)
       /\ files'[Len(generated_files) + 1] = JoinMessages(messages')

\* C19: generate_all_templates writes the files in ascending template order
\* T01, T02, ...; when the write of template k fails the error is raised at
\* once, the files of templates 1..k-1 are still there with the content
\* written, and no file of a template greater than k is written; when no
\* write fails, exactly template_count files are written and returned in
\* ascending order.
C19_BatchInOrderStopsAtFirstFailure ==
  []BatchInOrder /\ [][BatchStep]_vars

\* C19 witness: the write of the third or a later template failed after
\* truncating its file; the error is raised and the earlier files are there.
C19_Witness ==
  /\ pc = "raised"
  /\ error = "IOError"
  /\ Len(generated_files) >= 2
  /\ DOMAIN files = 1 .. (Len(generated_files) + 1)
  /\ files[Len(generated_files) + 1] = <<>>
  /\ \A t \in WrittenTemplates : files[t] # <<>>

\* C20: with cc_reverse set, min_cc_value is overridden: two calls of
\* generate_template that differ only in min_cc_value write the same CC
\* bytes, so every call writes the CC bytes of the call with the default
\* min_cc_value, for every template, control and CC mode.
C20_ReverseOverridesMinCC ==
  result = "ok" /\ cc_reverse =>
    \A i \in ControlIndices, other_min \in MinCCArgs :
      CCByte(i) = cc_value_for(i, template_num - 1, cc_mode, other_min, TRUE)

\* the state the code reaches instead: a reversed call with a high
\* min_cc_value has disabled a control that the same call with the default
\* min_cc_value assigns a CC
C20_MinCCStillCounts ==
  /\ result = "ok"
  /\ cc_reverse
  /\ min_cc_value = HighMinCC
  /\ \E i \in ControlIndices :
       /\ CCByte(i) = CC_DISABLED
       /\ cc_value_for(i, template_num - 1, cc_mode, DEFAULT_MIN_CC_VALUE, TRUE)
            = SAFE_CC_MAX - i

\* the reference algorithm, for control i of the call of the state: the
\* logical offset k, and the byte for it
ReferenceOffset(i) ==
  IF cc_mode = RESTART_PER_TEMPLATE THEN i
  ELSE (template_num - 1) * NumControls + i

ReferenceCC(i) ==
  LET k == ReferenceOffset(i)
      cc == IF cc_reverse THEN hi - k ELSE lo + k
  IN IF k >= hi - lo + 1 THEN 0
     ELSE IF cc < lo \/ cc > hi THEN 0
          ELSE cc

TwinBytes == JoinMessages(apply_colors_to_sysex(twin.colors, sysex_data))

\* C22: in edit_multiple_templates the bytes written to a template's file
\* depend only on that template's bytes and on the keys pressed in its own
\* session: they are the bytes a mapper made anew for the session writes
C22_FreshPerTemplate == mapper_pc = "saved" => template_file = TwinBytes

\* the second template of the list is saved with bytes that a mapper made
\* anew would not have written, though cursor and color index are where a
\* new mapper's would be: colors read from the first template were written
C22_EarlierTemplateLeaks ==
  /\ mapper_pc = "saved"
  /\ pending_files = <<>>
  /\ template_file # TwinBytes
  /\ CurrentMapper.cursor_row = twin.cursor_row
  /\ CurrentMapper.cursor_col = twin.cursor_col
  /\ CurrentMapper.current_color_idx = twin.current_color_idx

\* C23: in edit_template_file, ending the session with Quit leaves the
\* template file as it was read and the call returns None (reported as
\* cancelled); only a session ended with Save is applied and written
C23_QuitCancels ==
  /\ session_end = "quit" =>
       mapper_pc = "cancelled" /\ template_file = sysex_data
  /\ mapper_pc \in {"apply", "saved"} => session_end = "save"

\* after an edit, Quit has the mapping applied and the file rewritten with
\* other bytes, as Save does
C23_QuitSaves ==
  /\ session_end = "quit"
  /\ keys_pressed > 0
  /\ mapper_pc = "saved"
  /\ template_file # sysex_data
\* a frame whose first byte is 0xF0, whose last byte is 0xF7 and whose other
\* bytes are data bytes
IsFramedData(frame) ==
  /\ Len(frame) >= 2
  /\ frame[1] = SYSEX_START
  /\ frame[Len(frame)] = SYSEX_END
  /\ \A p \in 2 .. (Len(frame) - 1) : frame[p] < 128

\* C24: every byte generate_template stores is below 0x80, so each frame it
\* returns has 0xF0 at index 0 only and 0xF7 at its last index only, and
\* _split_sysex_messages on the joined frames, and on the file written from
\* them, gives back exactly the two frames
C24_WrittenFileSplitsIntoTheGeneratedPair ==
  result = "ok" =>
    /\ \A i \in ControlIndices :
         /\ CCByte(i) < 128
         /\ ChannelByte(i) < 128
         /\ FlagPos(i) >= 0 => FlagByte(i) < 128
    /\ Len(messages) = 2
    /\ \A m \in DOMAIN messages : IsFramedData(messages[m])
    /\ split_sysex_messages(JoinMessages(messages)) = messages
    /\ template_num \in WrittenTemplates =>
         split_sysex_messages(files[template_num]) = messages

\* a batch has written the last template a batch can have, with its channel
\* and the highest CC stored, and the file splits into the generated pair
C24_Witness ==
  /\ result = "ok"
  /\ template_num = MAX_TEMPLATE_COUNT
  /\ template_num \in WrittenTemplates
  /\ \E i \in ControlIndices : ChannelByte(i) = MAX_TEMPLATE_COUNT - 1
  /\ \E i \in ControlIndices : CCByte(i) = SAFE_CC_MAX
  /\ split_sysex_messages(files[template_num]) = messages
\* the offsets of frame msg_index that a pass patches, each with the control
\* and the field it belongs to
PatchedFields(msg_index) ==
  {<<i, field, CONTROLS[i + 1][field]>> :
     i \in {j \in ControlIndices : MsgIndex(j) = msg_index}, field \in 2 .. 5}
  \ {<<i, 5, FlagPos(i)>> : i \in {j \in ControlIndices : FlagPos(j) < 0}}

\* generate_template with the CC pass run before the channel pass
ResultWithCCPassFirst ==
  set_midi_channel(
    assign_continuous_controllers(
      set_button_modes(clone_messages(base_messages).messages),
      template_num - 1, cc_mode, min_cc_value, cc_reverse),
    get_channel_for_template(template_num, channel_mode, global_channel)).messages

\* a color mapping with every position of the layout in one color
AllPainted(color_name) == [p \in LayoutPositions |-> color_name]

\* the generated frames after _apply_colors_to_sysex has stored that mapping
\* into the file written from them
Repainted(color_name) ==
  apply_colors_to_sysex(AllPainted(color_name), JoinMessages(messages))

\* C25: within each frame the cc, channel, color and (where present) flag
\* offsets of its controls are pairwise different; so a successful
\* generate_template returns the same frames whichever of the channel pass
\* and the CC pass runs first, and applying colors to them afterwards leaves
\* every CC, channel and flag byte as generated (the calls looked at are the
\* direct ones, which take every template number a batch goes through)
C25_PassesDoNotOverlap ==
  /\ \A msg_index \in {0, 1} :
       Cardinality({f[3] : f \in PatchedFields(msg_index)})
         = Cardinality(PatchedFields(msg_index))
  /\ result = "ok" /\ template_count = None =>
       \A repainted \in {Repainted("pink")} :
          /\ ResultWithCCPassFirst = messages
          /\ \A i \in ControlIndices :
               /\ ByteAt(repainted, MsgIndex(i), CcPos(i)) = CCByte(i)
               /\ ByteAt(repainted, MsgIndex(i), ChPos(i)) = ChannelByte(i)
               /\ FlagPos(i) >= 0 =>
                    ByteAt(repainted, MsgIndex(i), FlagPos(i)) = FlagByte(i)

\* a template with a channel and CCs other than the base's has been
\* generated, and repainting it changes color bytes
C25_Witness ==
  /\ result = "ok"
  /\ template_count = None
  /\ template_num > 1
  /\ \E i \in ControlIndices : ChannelByte(i) = template_num - 1
  /\ \E i \in ControlIndices :
       CCByte(i) # 0 /\ CCByte(i) # ByteAt(EMBEDDED_MSGS, MsgIndex(i), CcPos(i))
  /\ \E repainted \in {Repainted("pink")}, i \in ControlIndices :
       /\ ByteAt(repainted, MsgIndex(i), ColorPos(i)) = color_map_value("pink")
       /\ ByteAt(messages, MsgIndex(i), ColorPos(i)) # color_map_value("pink")
\* C26: in the editor, after any sequence of keys from the cursor at (0, 0),
\* cursor_row is one of 0, 1, 2, 4, 5 (never the slider row 3), cursor_col
\* is in 0..7 and current_color_idx is in [0, len(COLOR_NAMES))
C26_CursorAndIndexStayInRange ==
  /\ cursor_row \in {0, 1, 2, 4, 5}
  /\ cursor_col \in 0 .. 7
  /\ current_color_idx \in 0 .. (Len(COLOR_NAMES) - 1)

\* the cursor has been run into the far corner of the grid, past the slider
\* row, by as many arrow keys as the editor takes, and the color index has
\* been stepped back from 0 to the last color
C26_Witness ==
  /\ mapper_pc = "editor"
  /\ keys_pressed = MaxCursorKeys
  /\ cursor_row = 5
  /\ cursor_col = 7
  /\ current_color_idx = Len(COLOR_NAMES) - 1
\* the cursor position
Cursor == <<cursor_row, cursor_col>>

\* the colors of every position outside `painted` are as they were
OnlyRepaints(painted) ==
  \A p \in DOMAIN colors' :
    p \notin painted => p \in DOMAIN colors /\ colors'[p] = colors[p]

\* what one key does, as the claim has it
KeyEffect(key) ==
  /\ key \in ArrowKeys =>
       colors' = colors /\ current_color_idx' = current_color_idx
  /\ key \in {CycleForward, CycleBackward} =>
       /\ Cursor' = Cursor
       /\ current_color_idx' =
            (current_color_idx + (IF key = CycleForward THEN 1 ELSE -1))
              % Len(COLOR_NAMES)
       /\ OnlyRepaints({Cursor})
       /\ colors'[Cursor] = COLOR_NAMES[current_color_idx' + 1]
  /\ key = PaintRow =>
       /\ Cursor' = Cursor
       /\ current_color_idx' = current_color_idx
       /\ OnlyRepaints({<<cursor_row, col>> : col \in 0 .. 7})
       /\ \A col \in 0 .. 7 :
            colors'[<<cursor_row, col>>] = colors_get(colors, Cursor)
  /\ key = PaintColumn =>
       /\ Cursor' = Cursor
       /\ current_color_idx' = current_color_idx
       /\ OnlyRepaints({<<row, cursor_col>> : row \in 0 .. 5})
       /\ \A row \in 0 .. 5 :
            colors'[<<row, cursor_col>>] = colors_get(colors, Cursor)

\* C27: in the editor an arrow key changes the cursor only; a cycle key
\* changes the color of the cursor position only, to
\* COLOR_NAMES[current_color_idx] after the index has been stepped; R changes
\* the 8 positions of the cursor row only and O the 6 positions of the cursor
\* column only, each to the color the cursor position held before the key
C27_KeysChangeOnlyWhatTheyName ==
  [][\A key \in EditKeys : PressKey(key, MaxCursorKeys) => KeyEffect(key)]_vars

\* the cursor was moved down, the color there was cycled to one that is not
\* off, R has painted that row with it and no other position, and an arrow
\* has moved the cursor along the row
C27_Witness ==
  /\ mapper_pc = "editor"
  /\ Cursor = <<1, 1>>
  /\ colors[Cursor] = COLOR_NAMES[current_color_idx + 1]
  /\ colors[Cursor] # "off"
  /\ \A p \in DOMAIN colors : colors[p] = IF p[1] = 1 THEN colors[Cursor] ELSE "off"
\* C28: for every byte stream, with garbage between the frames or an
\* unterminated tail or not, splitting the join of the split gives the split
\* again: split(join(split(x))) = split(x)
C28_SplitOfJoinOfSplit ==
  mapper_pc = "split_returned" =>
    split_sysex_messages(JoinMessages(split_frames)) = split_frames

\* a stream starting with a stray byte, holding two frames, the first with a
\* second 0xF0 inside, and ending in an unterminated frame
C28_Witness ==
  /\ mapper_pc = "split_returned"
  /\ Len(split_frames) = 2
  /\ sysex_data[1] # SYSEX_START
  /\ sysex_data[Len(sysex_data)] = SYSEX_START
  /\ split_frames[1] = <<SYSEX_START, SYSEX_START, SYSEX_END>>
  /\ JoinMessages(split_frames) # sysex_data

====
